---- MODULE Spec2Model ----
(***************************************************************************)
(* Model of the log-message consolidation engine of core/controller.py     *)
(* (Controller.emit_agent_message, clear_consolidated_message_id) and of   *)
(* the platform adapter calls it makes (modules/im/slack.py).              *)
(*                                                                         *)
(* A text is a run-length encoded string: a sequence of runs <<ch, n>>,    *)
(* n >= 1, no two adjacent runs with the same ch.  A ch is one character;  *)
(* the non-ASCII characters are named: "ELLIPSIS" is U+2026 (3 bytes in    *)
(* UTF-8), "CJK" a 3-byte ideograph, "EMOJI" a 4-byte emoji, "LF" the line *)
(* feed.  Lengths in characters and in bytes are computed from the runs,   *)
(* so the real limits (4000, 3600) are kept.                               *)
(***************************************************************************)
EXTENDS Integers, Sequences, FiniteSets, TLC

Min(a, b) == IF a <= b THEN a ELSE b

----------------------------------------------------------------------------
(* Strings                                                                 *)

\* UTF-8 width of one character (str.encode("utf-8")).
Utf8Width(ch) ==
    CASE ch = "ELLIPSIS" -> 3
      [] ch = "CJK"      -> 3
      [] ch = "EMOJI"    -> 4
      [] OTHER           -> 1

\* The characters str.strip() / str.rstrip() remove.
IsSpace(ch) == ch \in {" ", "LF"}

Run(ch, n) == <<ch, n>>

\* String concatenation (keeps the encoding canonical).
Cat(a, b) ==
    IF a = <<>> THEN b
    ELSE IF b = <<>> THEN a
    ELSE IF a[Len(a)][1] = b[1][1]
         THEN SubSeq(a, 1, Len(a) - 1)
              \o <<Run(b[1][1], a[Len(a)][2] + b[1][2])>>
              \o SubSeq(b, 2, Len(b))
         ELSE a \o b

\* len(text): number of characters.
RECURSIVE CharLen(_)
CharLen(t) == IF t = <<>> THEN 0 ELSE t[1][2] + CharLen(Tail(t))

\* text[:k]
RECURSIVE TakeChars(_, _)
TakeChars(t, k) ==
    IF t = <<>> \/ k <= 0 THEN <<>>
    ELSE IF t[1][2] <= k
         THEN <<t[1]>> \o TakeChars(Tail(t), k - t[1][2])
         ELSE <<Run(t[1][1], k)>>

\* text[k:]
RECURSIVE DropChars(_, _)
DropChars(t, k) ==
    IF t = <<>> \/ k <= 0 THEN t
    ELSE IF t[1][2] <= k
         THEN DropChars(Tail(t), k - t[1][2])
         ELSE <<Run(t[1][1], t[1][2] - k)>> \o Tail(t)

\* str.rstrip(): trailing whitespace removed.
RECURSIVE RStrip(_)
RStrip(t) ==
    IF t = <<>> THEN <<>>
    ELSE IF IsSpace(t[Len(t)][1]) THEN RStrip(SubSeq(t, 1, Len(t) - 1))
    ELSE t

\* str.lstrip()
RECURSIVE LStrip(_)
LStrip(t) ==
    IF t = <<>> THEN <<>>
    ELSE IF IsSpace(t[1][1]) THEN LStrip(Tail(t))
    ELSE t

\* str.strip()
Strip(t) == LStrip(RStrip(t))

\* str.rstrip(ch): every trailing occurrence of the one character ch removed.
RStripChar(t, ch) ==
    IF t # <<>> /\ t[Len(t)][1] = ch THEN SubSeq(t, 1, Len(t) - 1) ELSE t

----------------------------------------------------------------------------
(* Controller helpers                                                      *)

\* Controller._get_consolidated_max_bytes
ConsolidatedMaxBytes == 4000

\* As the threshold below, twice the limit of a message.
ThresholdAboveLimit == ConsolidatedMaxBytes * 2

\* Controller._get_consolidated_split_threshold
ConsolidatedSplitThreshold == 3600

\* Controller._get_text_byte_length: len(text.encode("utf-8"))
RECURSIVE GetTextByteLength(_)
GetTextByteLength(t) ==
    IF t = <<>> THEN 0
    ELSE t[1][2] * Utf8Width(t[1][1]) + GetTextByteLength(Tail(t))

\* As the decode below with errors="replace": a character cut by the slice
\* becomes one U+FFFD.
RECURSIVE DecodeReplace(_, _)
DecodeReplace(t, n) ==
    IF t = <<>> \/ n <= 0 THEN <<>>
    ELSE LET w    == Utf8Width(t[1][1])
             fit  == Min(t[1][2], n \div w)
         IN  IF fit = t[1][2]
             THEN <<t[1]>> \o DecodeReplace(Tail(t), n - fit * w)
             ELSE (IF fit = 0 THEN <<>> ELSE <<Run(t[1][1], fit)>>)
                  \o (IF n - fit * w > 0 THEN <<Run("REPLACEMENT", 1)>>
                      ELSE <<>>)

\* text.encode("utf-8")[:n].decode("utf-8", errors="ignore"): the first n
\* bytes, with the bytes of a character cut by the slice dropped.
RECURSIVE DecodeIgnore(_, _)
DecodeIgnore(t, n) ==
    IF t = <<>> \/ n <= 0 THEN <<>>
    ELSE LET w    == Utf8Width(t[1][1])
             fit  == Min(t[1][2], n \div w)
         IN  IF fit = t[1][2]
             THEN <<t[1]>> \o DecodeIgnore(Tail(t), n - fit * w)
             ELSE IF fit = 0 THEN <<>> ELSE <<Run(t[1][1], fit)>>

Ellipsis == <<Run("ELLIPSIS", 1)>>

\* As _truncate_consolidated, with no room kept for the ellipsis.
TruncateNoReserve(text, max_bytes) ==
    IF GetTextByteLength(text) <= max_bytes THEN text
    ELSE Cat(RStrip(DecodeIgnore(text, max_bytes)), Ellipsis)

\* Controller._truncate_consolidated
TruncateConsolidated(text, max_bytes) ==
    IF GetTextByteLength(text) <= max_bytes THEN text
    ELSE LET target_bytes == max_bytes - GetTextByteLength(Ellipsis)
         IN  Cat(RStrip(DecodeIgnore(text, target_bytes)), Ellipsis)

\* "\n\n---\n\n"
Separator == <<Run("LF", 2), Run("-", 3), Run("LF", 2)>>

\* "\n\n---\n\n_(continued below...)_"
ContinuationNotice ==
    <<Run("LF", 2), Run("-", 3), Run("LF", 2), Run("_", 1), Run("(", 1),
      Run("c", 1), Run("o", 1), Run("n", 1), Run("t", 1), Run("i", 1),
      Run("n", 1), Run("u", 1), Run("e", 1), Run("d", 1), Run(" ", 1),
      Run("b", 1), Run("e", 1), Run("l", 1), Run("o", 1), Run("w", 1),
      Run(".", 3), Run(")", 1), Run("_", 1)>>

\* As the join below, without the separator.
JoinNoSeparator(existing, chunk) == Cat(existing, chunk)

\* updated = f"{existing}{separator}{chunk}" if existing else chunk
JoinChunk(existing, chunk) ==
    IF existing # <<>> THEN Cat(Cat(existing, Separator), chunk) ELSE chunk

\* As old_text below, not truncated.
OldTextUncut(existing) == Cat(existing, ContinuationNotice)

\* old_text of the proactive split: the previous buffer plus the notice,
\* truncated to the message limit.
OldText(existing) ==
    TruncateConsolidated(Cat(existing, ContinuationNotice), ConsolidatedMaxBytes)

\* first_part of one round of the oversized-split loop.
FirstPart(updated) ==
    LET target_bytes == ConsolidatedSplitThreshold
                        - GetTextByteLength(ContinuationNotice)
    IN  Cat(RStripChar(TruncateConsolidated(updated, target_bytes), "ELLIPSIS"),
            ContinuationNotice)

\* As sent_chars below, counting the notice as sent content.
SentCharsWithNotice(first_part) == CharLen(first_part)

\* sent_chars = len(first_part) - len(continuation_notice)
SentChars(first_part) == CharLen(first_part) - CharLen(ContinuationNotice)

\* updated = updated[sent_chars:]
Remainder(updated, first_part) == DropChars(updated, SentChars(first_part))

----------------------------------------------------------------------------
(* Inputs                                                                  *)

\* Number of calls of emit_agent_message / clear_consolidated_message_id.
NumTasks == 2

\* Number of calls that may be in progress at the same time.
MaxConcurrent == 3

\* Number of platform calls (send_message, edit_message) that complete.
MaxPlatformCalls == 5

\* Number of log fragments of one conversation round (RoundSpec).
RoundLen == 3

\* MessageContext values: two conversation rounds in two channels; the second
\* has no thread.
Ctx1 == [channel_id |-> "C1", thread_id |-> "T1", message_id |-> "M1"]
Ctx2 == [channel_id |-> "C2", thread_id |-> "",   message_id |-> "M2"]
Contexts == {Ctx1, Ctx2}

\* Controller._get_settings_key
SettingsKey(context) == context.channel_id

\* Controller._get_consolidated_message_key
ConsolidatedMessageKey(context) ==
    <<SettingsKey(context),
      IF context.thread_id # "" THEN context.thread_id ELSE context.channel_id,
      context.message_id>>

Keys == {ConsolidatedMessageKey(c) : c \in Contexts}

\* Fragment texts.
A1500 == <<Run("a", 1500)>>
Padded == <<Run("c", 3990), Run(" ", 20)>>
Big   == <<Run(" ", 1), Run("LF", 1), Run("b", 3560), Run(" ", 6),
           Run("EMOJI", 2), Run("CJK", 2000), Run("LF", 1), Run(" ", 1)>>
Dots  == <<Run("ELLIPSIS", 1400)>>
Blank == <<Run(" ", 2)>>
Hello == <<Run(" ", 1), Run("h", 5)>>

\* The (message_type, text) pairs a call of emit_agent_message is given: the
\* first round receives every kind of fragment, the second round plain ones.
EmitInputs(context) ==
    IF context = Ctx1
    THEN {[message_type |-> "assistant", text |-> x] :
             x \in {A1500, Padded, Big, Dots, Blank}}
         \cup {[message_type |-> "Notify",   text |-> Hello],
               [message_type |-> "toolcall", text |-> Hello]}
    ELSE {[message_type |-> "assistant", text |-> A1500],
          [message_type |-> "toolcall",  text |-> Hello]}

\* SettingsManager._canonicalize_message_type: lower-cased label.
CanonicalizeMessageType(message_type) ==
    CASE message_type = "Notify" -> "notify"
      [] OTHER -> message_type

\* SettingsManager.is_message_type_hidden: the settings of channel C1 list
\* tool calls, notifications and results as hidden.
IsMessageTypeHidden(settings_key, canonical_type) ==
    settings_key = "C1" /\ canonical_type \in {"toolcall", "notify", "result"}

----------------------------------------------------------------------------
(* State                                                                   *)

VARIABLES
    consolidated_message_ids,      \* key -> tracked message id, NoId if absent
    consolidated_message_buffers,  \* key -> stored buffer, "" if absent
    consolidated_message_locks,    \* per key, which Lock made for it is stored
    lock_holder,                   \* key -> the task holding the key's lock
    lock_waiters,                  \* key -> the tasks queued on the lock, FIFO
    tasks,                         \* task -> its call: position and locals
    calls,                         \* the platform calls that completed, in order
    next_ts                        \* the message id the platform gives next

vars == <<consolidated_message_ids, consolidated_message_buffers,
          consolidated_message_locks, lock_holder, lock_waiters, tasks,
          calls, next_ts>>

\* The state of core/gist_service.py.
VARIABLES
    diff_snapshots,                \* session key -> raw diff of its snapshot
    working_diff,                  \* what `git diff` prints for the working tree
    incremental                    \* what get_incremental_diff returned last

\* The state of one call of core/diff_parser.py's parse_unified_diff.
VARIABLES
    parser                         \* its argument, locals and return value

\* The state of one call of gist_service.py's create_diff_gist.
VARIABLES
    fs,                            \* the temporary files and directories that exist
    gist                           \* its arguments, locals and return value

\* The state of one call of emit_agent_message with a result fragment.
VARIABLES
    result                         \* its arguments, position and platform calls

\* The state of one call of gist_service.py's create_full_diff_gist or
\* create_incremental_diff_gist.
VARIABLES
    publish                        \* its arguments, position and return value

\* The state of one call of a formatter of core/diff_parser.py.
VARIABLES
    formatter                      \* its arguments, locals and return value

\* The calls of gist_service.py's save_diff_snapshot that have returned.
VARIABLES
    saved                          \* their number, and the last one's key and value

\* The state outside the consolidation of log messages.
others == <<diff_snapshots, working_diff, incremental, parser, fs, gist,
           result, publish, formatter, saved>>

\* What the actions of get_incremental_diff and of the snapshot store, of
\* parse_unified_diff and of create_diff_gist leave alone.
besidesDiff == <<vars, parser, fs, gist, result, publish, formatter, saved>>

besidesParser == <<vars, diff_snapshots, working_diff, incremental, fs, gist,
                  result, publish, formatter, saved>>

besidesGist == <<vars, diff_snapshots, working_diff, incremental, parser,
                result, publish, formatter, saved>>

\* A text is held as the list of its lines, text.split("\n"), and a line as
\* the tuple of its parts; "" is one empty line.
EmptyText == << <<>> >>

\* Controller._send_diff_gist_notification: the session key of a context.
SessionKey(context) ==
    <<context.channel_id,
      IF context.thread_id # "" THEN context.thread_id ELSE context.message_id>>

SessionKeys == {SessionKey(context) : context \in Contexts}

\* _diff_snapshots.get(session_key) of an absent key.
NoSnapshot == [stored |-> FALSE, raw_diff |-> EmptyText]

\* No call of get_incremental_diff has returned yet.
NoIncremental ==
    [called |-> FALSE, session_key |-> <<>>, previous |-> NoSnapshot,
     current_diff |-> EmptyText, file_diffs |-> <<>>,
     incremental_diff_content |-> EmptyText, full_diff_content |-> EmptyText]

\* gist_service.py as loaded: no snapshot, a clean working tree.
GistServiceInit ==
    /\ diff_snapshots = [k \in SessionKeys |-> NoSnapshot]
    /\ working_diff = EmptyText
    /\ incremental = NoIncremental

\* parse_unified_diff with its argument, before its first statement.
ParserCalled(diff_output) ==
    [pc |-> "called", diff_output |-> diff_output, lines |-> <<>>, i |-> 0,
     files |-> <<>>, current_file |-> <<>>, current_hunk |-> <<>>,
     result |-> <<>>]

\* No call of parse_unified_diff is under way.
ParserIdle == parser = [ParserCalled(EmptyText) EXCEPT !.pc = "idle"]

\* None, where a text is expected.
None == <<"None">>

\* create_diff_gist with its arguments, before its first statement (lines
\* 277-278: temp_dir = None, temp_files = []).
GistCalled(diff_output, per_file) ==
    [pc |-> "called", diff_output |-> diff_output, per_file |-> per_file,
     files_dict |-> <<>>, temp_dir |-> None, temp_files |-> <<>>,
     tool |-> "not run", output |-> <<>>, raised |-> None,
     gist_url |-> None, error |-> None]

\* No call of create_diff_gist is under way, no temporary file exists.
GistIdle ==
    /\ fs = {}
    /\ gist = [GistCalled(EmptyText, TRUE) EXCEPT !.pc = "idle"]

\* emit_agent_message with a result fragment, before its first statement:
\* the context and text it is given, config.platform, and whether the
\* adapter has an upload_markdown method.
ResultCalled(context, text, platform, has_upload) ==
    [pc |-> "called", context |-> context, text |-> text,
     platform |-> platform, has_upload |-> has_upload,
     calls |-> <<>>, file_diffs |-> <<>>]

\* No result fragment is being delivered.
ResultIdle ==
    result = [ResultCalled(Ctx1, <<>>, "slack", TRUE) EXCEPT !.pc = "idle"]

\* create_full_diff_gist (op "full") or create_incremental_diff_gist (op
\* "incremental") with its session key, before its first statement.
PublishCalled(op, session_key) ==
    [pc |-> "called", op |-> op, session_key |-> session_key,
     git |-> "not run", stat_output |-> <<>>, file_diffs |-> <<>>,
     returned |-> <<>>]

\* No publication is under way.
PublishIdle ==
    publish = [PublishCalled("full", <<>>) EXCEPT !.pc = "idle"]

\* format_diff_as_rich_text_blocks with its arguments, before its first
\* statement.
FormatterCalled(files, max_changes_per_file, max_files, max_blocks) ==
    [pc |-> "called", files |-> files,
     max_changes_per_file |-> max_changes_per_file, max_files |-> max_files,
     max_blocks |-> max_blocks, files_shown |-> 0, blocks |-> <<>>]

\* No formatter is running.
FormatterIdle ==
    formatter = [FormatterCalled(<<>>, 8, 5, 80) EXCEPT !.pc = "idle"]

\* save_diff_snapshot has not returned yet.
SaveIdle ==
    saved = [count |-> 0, session_key |-> <<>>,
             returned |-> [stored |-> FALSE, raw_diff |-> << <<>> >>]]

\* Everything but the controller at rest.
OthersIdle ==
    /\ GistServiceInit
    /\ ParserIdle
    /\ GistIdle
    /\ ResultIdle
    /\ PublishIdle
    /\ FormatterIdle
    /\ SaveIdle

\* dict.get(key) of an absent key.
NoId == 0

\* An unlocked asyncio.Lock.
NoTask == 0

IdleTask ==
    [pc |-> "idle", op |-> "none", key |-> <<>>, message_type |-> "",
     text |-> <<>>, chunk |-> <<>>, existing |-> <<>>,
     existing_message_id |-> NoId, updated |-> <<>>, arg |-> <<>>]

\* _consolidated_message_locks has no entry for the key.
NoLock == 0

\* As the lookup below, with a new Lock stored at every lookup.
GetLockAlwaysNew(key) ==
    [consolidated_message_locks EXCEPT ![key] = @ + 1]

\* Lines 247-250: _consolidated_message_locks after the lookup of the key's
\* lock: the first Lock made for the key is stored when the key has none.
GetConsolidatedMessageLock(key) ==
    IF consolidated_message_locks[key] = NoLock
    THEN [consolidated_message_locks EXCEPT ![key] = 1]
    ELSE consolidated_message_locks

\* Controller.__init__
Init ==
    /\ consolidated_message_ids = [k \in Keys |-> NoId]
    /\ consolidated_message_buffers = [k \in Keys |-> <<>>]
    /\ consolidated_message_locks = [k \in Keys |-> NoLock]
    /\ lock_holder = [k \in Keys |-> NoTask]
    /\ lock_waiters = [k \in Keys |-> <<>>]
    /\ tasks = [t \in 1 .. NumTasks |-> IdleTask]
    /\ calls = <<>>
    /\ next_ts = 1

\* The positions at which a call is suspended in a platform call.
AwaitingPlatform == {"notify_send", "finalize_edit", "split_call",
                     "final_edit", "final_send"}

\* The positions inside `async with lock`.
InLockedSection == {"finalize_edit", "split_call", "final_edit", "final_send"}

Active(t) == tasks[t].pc \notin {"idle", "done", "raised"}

\* A new call may begin: calls are numbered in the order they are made.
MayStart(t) ==
    /\ tasks[t].pc = "idle"
    /\ \A u \in DOMAIN tasks : u < t => tasks[u].pc # "idle"
    /\ Cardinality({u \in DOMAIN tasks : Active(u)}) < MaxConcurrent

\* As asyncio.Lock.acquire, with no lock taken at all.
LockNeverHeld(key) == TRUE

\* As asyncio.Lock.acquire, with one lock shared by all keys.
LockSharedByAllKeys(key) ==
    \A k \in DOMAIN lock_holder : lock_holder[k] = NoTask /\ lock_waiters[k] = <<>>

\* asyncio.Lock.acquire returns at once: the lock is free and nobody queues.
LockAvailable(key) == lock_holder[key] = NoTask /\ lock_waiters[key] = <<>>

----------------------------------------------------------------------------
(* Platform adapter (modules/im/slack.py)                                  *)

\* send_message returns the new message's ts or raises; edit_message returns
\* True, returns False on a SlackApiError, or raises on any other error.
Outcomes(op) == IF op = "send" THEN {"ok", "raise"} ELSE {"ok", "false", "raise"}

\* As the except clauses below, with the final send left unguarded.
CatchesEditsOnly(site) == site \in {"finalize", "split", "final_edit"}

\* The except clauses of emit_agent_message: every platform call of the
\* consolidation path is inside try/except Exception; the notify send is not.
Catches(site) == site \in {"finalize", "split", "final_edit", "final_send"}

\* A platform call of task t completes with `outcome`.
Completes(t, site, op, id, outcome) ==
    /\ Len(calls) < MaxPlatformCalls
    /\ outcome \in Outcomes(op)
    /\ calls' = Append(calls,
                  [task |-> t, key |-> tasks[t].key, site |-> site, op |-> op,
                   id |-> IF op = "send"
                          THEN (IF outcome = "ok" THEN next_ts ELSE NoId)
                          ELSE id,
                   text |-> tasks[t].arg, ok |-> outcome = "ok"])
    /\ next_ts' = IF op = "send" /\ outcome = "ok" THEN next_ts + 1 ELSE next_ts

----------------------------------------------------------------------------
(* emit_agent_message, from one suspension point to the next               *)

\* As the step below, with the buffer not stored (line 610 left out).
AfterLoopNoStore(t, tr, bufs, idm) ==
    LET updated == TruncateConsolidated(tr.updated, ConsolidatedMaxBytes)
    IN  /\ tasks' = [tasks EXCEPT ![t] =
                       [tr EXCEPT !.updated = updated, !.arg = updated,
                                  !.pc = IF tr.existing_message_id # NoId
                                         THEN "final_edit" ELSE "final_send"]]
        /\ consolidated_message_buffers' = bufs
        /\ consolidated_message_ids' = idm

\* As the step below, with the buffer stored as it was before line 609.
AfterLoopStoresUncut(t, tr, bufs, idm) ==
    LET updated == TruncateConsolidated(tr.updated, ConsolidatedMaxBytes)
    IN  /\ tasks' = [tasks EXCEPT ![t] =
                       [tr EXCEPT !.updated = updated, !.arg = updated,
                                  !.pc = IF tr.existing_message_id # NoId
                                         THEN "final_edit" ELSE "final_send"]]
        /\ consolidated_message_buffers' = [bufs EXCEPT ![tr.key] = tr.updated]
        /\ consolidated_message_ids' = idm

\* Lines 609-612 and 627: the final truncation, the buffer stored, and the
\* final edit or send started.
AfterLoop(t, tr, bufs, idm) ==
    LET updated == TruncateConsolidated(tr.updated, ConsolidatedMaxBytes)
    IN  /\ tasks' = [tasks EXCEPT ![t] =
                       [tr EXCEPT !.updated = updated, !.arg = updated,
                                  !.pc = IF tr.existing_message_id # NoId
                                         THEN "final_edit" ELSE "final_send"]]
        /\ consolidated_message_buffers' = [bufs EXCEPT ![tr.key] = updated]
        /\ consolidated_message_ids' = idm

\* Lines 561-588: the loop test and, inside the loop, the call of one part.
AtLoop(t, tr, bufs, idm) ==
    IF GetTextByteLength(tr.updated) > ConsolidatedMaxBytes
    THEN /\ tasks' = [tasks EXCEPT ![t] =
                        [tr EXCEPT !.pc = "split_call",
                                   !.arg = FirstPart(tr.updated)]]
         /\ consolidated_message_buffers' = bufs
         /\ consolidated_message_ids' = idm
    ELSE AfterLoop(t, tr, bufs, idm)

\* Lines 518-545: the locked section up to its first platform call.
EnterSection(t, tr) ==
    LET chunk    == Strip(tr.text)
        existing == consolidated_message_buffers[tr.key]
        emid     == consolidated_message_ids[tr.key]
        updated  == JoinChunk(existing, chunk)
        tr1      == [tr EXCEPT !.chunk = chunk, !.existing = existing,
                               !.existing_message_id = emid,
                               !.updated = updated]
    IN  IF emid # NoId /\ GetTextByteLength(updated) > ConsolidatedSplitThreshold
        THEN /\ tasks' = [tasks EXCEPT ![t] =
                            [tr1 EXCEPT !.pc = "finalize_edit",
                                        !.arg = OldText(existing)]]
             /\ UNCHANGED <<consolidated_message_ids,
                            consolidated_message_buffers>>
        ELSE AtLoop(t, tr1, consolidated_message_buffers,
                    consolidated_message_ids)

\* An exception leaves emit_agent_message; `async with` releases the lock.
Raises(t) ==
    /\ tasks' = [tasks EXCEPT ![t].pc = "raised"]
    /\ lock_holder' = IF tasks[t].pc \in InLockedSection
                      THEN [lock_holder EXCEPT ![tasks[t].key] = NoTask]
                      ELSE lock_holder
    /\ UNCHANGED <<consolidated_message_ids, consolidated_message_buffers>>

\* emit_agent_message returns from inside the locked section.
ReturnsUnlocking(t, idm) ==
    /\ tasks' = [tasks EXCEPT ![t].pc = "done"]
    /\ lock_holder' = [lock_holder EXCEPT ![tasks[t].key] = NoTask]
    /\ consolidated_message_ids' = idm
    /\ UNCHANGED consolidated_message_buffers

NewCall(op, context, inp) ==
    [IdleTask EXCEPT !.op = op, !.key = ConsolidatedMessageKey(context),
                     !.message_type = inp.message_type, !.text = inp.text]

\* Lines 452-453: empty or blank text.
EmitBlank(t) ==
    \E context \in Contexts : \E inp \in EmitInputs(context) :
        /\ MayStart(t)
        /\ Strip(inp.text) = <<>>
        /\ tasks' = [tasks EXCEPT ![t] =
                       [NewCall("emit", context, inp) EXCEPT !.pc = "done"]]
        /\ UNCHANGED <<consolidated_message_ids, consolidated_message_buffers,
                       consolidated_message_locks, lock_holder, lock_waiters,
                       calls, next_ts, others>>

\* Lines 460-465: a notify fragment is sent at once, as given.
EmitNotify(t) ==
    \E context \in Contexts : \E inp \in EmitInputs(context) :
        /\ MayStart(t)
        /\ Strip(inp.text) # <<>>
        /\ CanonicalizeMessageType(inp.message_type) = "notify"
        /\ tasks' = [tasks EXCEPT ![t] =
                       [NewCall("emit", context, inp) EXCEPT
                            !.pc = "notify_send", !.arg = inp.text]]
        /\ UNCHANGED <<consolidated_message_ids, consolidated_message_buffers,
                       consolidated_message_locks, lock_holder, lock_waiters,
                       calls, next_ts, others>>

\* As lines 500-502, with every log fragment taken for kind assistant.
LogTypeAssistantOnly(canonical_type) == "assistant"

\* Lines 500-502: any other label is a log message of kind assistant.
LogType(canonical_type) ==
    IF canonical_type \in {"system", "assistant", "toolcall"}
    THEN canonical_type ELSE "assistant"

\* Lines 504-512: a hidden log fragment is dropped.
EmitHidden(t) ==
    \E context \in Contexts : \E inp \in EmitInputs(context) :
        /\ MayStart(t)
        /\ Strip(inp.text) # <<>>
        /\ CanonicalizeMessageType(inp.message_type) # "notify"
        /\ IsMessageTypeHidden(SettingsKey(context),
               LogType(CanonicalizeMessageType(inp.message_type)))
        /\ tasks' = [tasks EXCEPT ![t] =
                       [NewCall("emit", context, inp) EXCEPT !.pc = "done"]]
        /\ UNCHANGED <<consolidated_message_ids, consolidated_message_buffers,
                       consolidated_message_locks, lock_holder, lock_waiters,
                       calls, next_ts, others>>

\* Lines 500-517 for a visible log fragment: the key's lock is looked up
\* (created on first use) and acquired, at once when it is free, else after
\* queueing.
EmitLogWith(t, context, inp) ==
    LET tr == NewCall("emit", context, inp) IN
    /\ MayStart(t)
    /\ Strip(inp.text) # <<>>
    /\ CanonicalizeMessageType(inp.message_type) # "notify"
    /\ ~IsMessageTypeHidden(SettingsKey(context),
            LogType(CanonicalizeMessageType(inp.message_type)))
    /\ consolidated_message_locks' = GetConsolidatedMessageLock(tr.key)
    /\ IF LockAvailable(tr.key)
       THEN /\ lock_holder' = [lock_holder EXCEPT ![tr.key] = t]
            /\ EnterSection(t, tr)
            /\ UNCHANGED lock_waiters
       ELSE /\ lock_waiters' = [lock_waiters EXCEPT ![tr.key] = Append(@, t)]
            /\ tasks' = [tasks EXCEPT ![t] = [tr EXCEPT !.pc = "wait_lock"]]
            /\ UNCHANGED <<lock_holder, consolidated_message_ids,
                           consolidated_message_buffers>>
    /\ UNCHANGED <<calls, next_ts, others>>

EmitLog(t) ==
    \E context \in Contexts : \E inp \in EmitInputs(context) :
        EmitLogWith(t, context, inp)

----------------------------------------------------------------------------
(* clear_consolidated_message_id                                           *)

\* Lines 266-272: the key, from the trigger message id when one is given.
ClearKey(context, trigger_message_id) ==
    <<SettingsKey(context),
      IF context.thread_id # "" THEN context.thread_id ELSE context.channel_id,
      IF trigger_message_id # "" THEN trigger_message_id
      ELSE context.message_id>>

\* As lines 277-279, with the id popped and the buffer kept.
ClearedIdOnly(t, tr) ==
    /\ tasks' = [tasks EXCEPT ![t] = [tr EXCEPT !.pc = "done"]]
    /\ consolidated_message_ids' =
           [consolidated_message_ids EXCEPT ![tr.key] = NoId]
    /\ UNCHANGED consolidated_message_buffers

\* As lines 277-279, with the entries of every key popped.
ClearedEveryKey(t, tr) ==
    /\ tasks' = [tasks EXCEPT ![t] = [tr EXCEPT !.pc = "done"]]
    /\ consolidated_message_ids' = [k \in Keys |-> NoId]
    /\ consolidated_message_buffers' = [k \in Keys |-> <<>>]

\* Lines 277-279: both entries popped.
Cleared(t, tr) ==
    /\ tasks' = [tasks EXCEPT ![t] = [tr EXCEPT !.pc = "done"]]
    /\ consolidated_message_ids' =
           [consolidated_message_ids EXCEPT ![tr.key] = NoId]
    /\ consolidated_message_buffers' =
           [consolidated_message_buffers EXCEPT ![tr.key] = <<>>]

\* Lines 274-279: the lock is taken, both entries are popped, the lock is
\* released; nothing suspends once the lock is held.
ClearCall(t) ==
    \E context \in Contexts : \E trigger \in {"", context.message_id} :
        LET tr == [IdleTask EXCEPT !.op = "clear",
                                   !.key = ClearKey(context, trigger)] IN
        /\ MayStart(t)
        /\ consolidated_message_locks' = GetConsolidatedMessageLock(tr.key)
        /\ IF LockAvailable(tr.key)
           THEN /\ Cleared(t, tr)
                /\ UNCHANGED lock_waiters
           ELSE /\ lock_waiters' = [lock_waiters EXCEPT
                                       ![tr.key] = Append(@, t)]
                /\ tasks' = [tasks EXCEPT ![t] = [tr EXCEPT !.pc = "wait_lock"]]
                /\ UNCHANGED <<consolidated_message_ids,
                               consolidated_message_buffers>>
        /\ UNCHANGED <<lock_holder, calls, next_ts, others>>

\* As asyncio.Lock.release, waking the waiter that queued last.
LastWaiter(key) == lock_waiters[key][Len(lock_waiters[key])]

\* asyncio.Lock.release wakes the waiter that queued first.
FirstWaiter(key) == Head(lock_waiters[key])

\* asyncio.Lock: release wakes the first waiter, which then holds the lock.
LockHandedOver(t) ==
    /\ tasks[t].pc = "wait_lock"
    /\ lock_holder[tasks[t].key] = NoTask
    /\ lock_waiters[tasks[t].key] # <<>>
    /\ FirstWaiter(tasks[t].key) = t
    /\ lock_waiters' = [lock_waiters EXCEPT ![tasks[t].key] =
                           SelectSeq(@, LAMBDA u : u # t)]
    /\ IF tasks[t].op = "clear"
       THEN /\ Cleared(t, tasks[t])
            /\ UNCHANGED lock_holder
       ELSE /\ lock_holder' = [lock_holder EXCEPT ![tasks[t].key] = t]
            /\ EnterSection(t, tasks[t])
    /\ UNCHANGED <<consolidated_message_locks, calls, next_ts, others>>

----------------------------------------------------------------------------
(* The platform calls return                                               *)

\* Lines 462-465.
NotifyReturns(t) ==
    \E outcome \in Outcomes("send") :
        /\ tasks[t].pc = "notify_send"
        /\ Completes(t, "notify", "send", NoId, outcome)
        /\ IF outcome = "raise" /\ ~Catches("notify")
           THEN Raises(t)
           ELSE /\ tasks' = [tasks EXCEPT ![t].pc = "done"]
                /\ UNCHANGED <<consolidated_message_ids,
                               consolidated_message_buffers, lock_holder>>
        /\ UNCHANGED <<consolidated_message_locks, lock_waiters, others>>

\* Lines 539-557: the old message was (or was not) finalized; the round
\* starts again from the new chunk.
FinalizeEditReturns(t) ==
    \E outcome \in Outcomes("edit") :
        LET tr == tasks[t] IN
        /\ tr.pc = "finalize_edit"
        /\ Completes(t, "finalize", "edit", tr.existing_message_id, outcome)
        /\ IF outcome = "raise" /\ ~Catches("finalize")
           THEN Raises(t)
           ELSE /\ AtLoop(t,
                      [tr EXCEPT !.updated = tr.chunk,
                                 !.existing_message_id = NoId],
                      [consolidated_message_buffers EXCEPT ![tr.key] = tr.chunk],
                      [consolidated_message_ids EXCEPT ![tr.key] = NoId])
                /\ UNCHANGED lock_holder
        /\ UNCHANGED <<consolidated_message_locks, lock_waiters, others>>

\* Lines 569-607: one part of an oversized buffer was sent or edited.
SplitCallReturns(t) ==
    LET tr == tasks[t]
        op == IF tr.existing_message_id # NoId THEN "edit" ELSE "send"
    IN  \E outcome \in Outcomes(op) :
        /\ tr.pc = "split_call"
        /\ Completes(t, "split", op, tr.existing_message_id, outcome)
        /\ IF outcome = "raise" /\ ~Catches("split")
           THEN Raises(t)
           ELSE /\ IF outcome = "raise"
                   THEN AfterLoop(t, tr, consolidated_message_buffers,
                                  consolidated_message_ids)
                   ELSE AtLoop(t,
                          [tr EXCEPT !.updated = Remainder(tr.updated, tr.arg),
                                     !.existing_message_id = NoId],
                          consolidated_message_buffers,
                          [consolidated_message_ids EXCEPT ![tr.key] = NoId])
                /\ UNCHANGED lock_holder
        /\ UNCHANGED <<consolidated_message_locks, lock_waiters, others>>

\* As line 625, with the id of the failed edit left in place.
IdKeptAfterFailedEdit(key) == consolidated_message_ids

\* Line 625: the id whose edit failed is popped.
IdPoppedAfterFailedEdit(key) ==
    [consolidated_message_ids EXCEPT ![key] = NoId]

\* As lines 613-624, with a returned False taken for success.
OkUnlessRaised(outcome) == outcome # "raise"

\* Lines 613-624: ok is what edit_message returned, or False when it raised.
EditOk(outcome) == outcome = "ok"

\* Lines 612-625: the tracked message was edited, or the edit failed and the
\* buffer is sent as a new message.
FinalEditReturns(t) ==
    \E outcome \in Outcomes("edit") :
        LET tr == tasks[t] IN
        /\ tr.pc = "final_edit"
        /\ Completes(t, "final_edit", "edit", tr.existing_message_id, outcome)
        /\ IF outcome = "raise" /\ ~Catches("final_edit")
           THEN Raises(t)
           ELSE IF EditOk(outcome)
           THEN ReturnsUnlocking(t, consolidated_message_ids)
           ELSE /\ tasks' = [tasks EXCEPT ![t].pc = "final_send"]
                /\ consolidated_message_ids' = IdPoppedAfterFailedEdit(tr.key)
                /\ UNCHANGED <<consolidated_message_buffers, lock_holder>>
        /\ UNCHANGED <<consolidated_message_locks, lock_waiters, others>>

\* As line 631, keeping the id of the message whose edit just failed.
KeepEditedId(existing_message_id, new_id) ==
    IF existing_message_id # NoId THEN existing_message_id ELSE new_id

\* Line 631: the id tracked after the final send.
TrackedAfterSend(existing_message_id, new_id) == new_id

\* Lines 627-633: the new message's id is tracked, or the failure is logged.
FinalSendReturns(t) ==
    \E outcome \in Outcomes("send") :
        LET tr == tasks[t] IN
        /\ tr.pc = "final_send"
        /\ Completes(t, "final_send", "send", NoId, outcome)
        /\ IF outcome = "raise" /\ ~Catches("final_send")
           THEN Raises(t)
           ELSE ReturnsUnlocking(t,
                    IF outcome = "ok"
                    THEN [consolidated_message_ids EXCEPT ![tr.key] =
                             TrackedAfterSend(tr.existing_message_id, next_ts)]
                    ELSE consolidated_message_ids)
        /\ UNCHANGED <<consolidated_message_locks, lock_waiters, others>>

----------------------------------------------------------------------------
Next ==
    \E t \in 1 .. NumTasks :
        \/ EmitBlank(t)
        \/ EmitNotify(t)
        \/ EmitHidden(t)
        \/ EmitLog(t)
        \/ ClearCall(t)
        \/ LockHandedOver(t)
        \/ NotifyReturns(t)
        \/ FinalizeEditReturns(t)
        \/ SplitCallReturns(t)
        \/ FinalEditReturns(t)
        \/ FinalSendReturns(t)

\* The controller at work, gist_service.py left alone.
ControllerInit == Init /\ OthersIdle

Spec == ControllerInit /\ [][Next]_vars

----------------------------------------------------------------------------
(* One conversation round: RoundLen log fragments for one key              *)

RoundInputs ==
    {[message_type |-> "assistant", text |-> x] : x \in {A1500, Big}}

RoundInit ==
    /\ consolidated_message_ids = [k \in Keys |-> NoId]
    /\ consolidated_message_buffers = [k \in Keys |-> <<>>]
    /\ consolidated_message_locks = [k \in Keys |-> NoLock]
    /\ lock_holder = [k \in Keys |-> NoTask]
    /\ lock_waiters = [k \in Keys |-> <<>>]
    /\ tasks = [t \in 1 .. RoundLen |-> IdleTask]
    /\ calls = <<>>
    /\ next_ts = 1

RoundEmitLog(t) == \E inp \in RoundInputs : EmitLogWith(t, Ctx1, inp)

RoundNext ==
    \E t \in 1 .. RoundLen :
        \/ RoundEmitLog(t)
        \/ LockHandedOver(t)
        \/ FinalizeEditReturns(t)
        \/ SplitCallReturns(t)
        \/ FinalEditReturns(t)
        \/ FinalSendReturns(t)

RoundStart == RoundInit /\ OthersIdle

RoundSpec == RoundStart /\ [][RoundNext]_vars

----------------------------------------------------------------------------
(* Properties                                                              *)

Last(q) == q[Len(q)]

\* The completed platform calls of task t, in order.
CallsOf(t) == SelectSeq(calls, LAMBDA c : c.task = t)

\* The successful consolidation-path calls for key k, in order.
DeliveredFor(k) ==
    SelectSeq(calls, LAMBDA c : c.key = k /\ c.site # "notify" /\ c.ok)

\* No call for key k is inside its locked section.
Quiescent(k) ==
    \A t \in DOMAIN tasks : tasks[t].key = k => tasks[t].pc \notin InLockedSection

\* C1: every text the consolidation path passes to send_message or
\* edit_message, whether the call has completed or is still pending, is at
\* most 4000 UTF-8 bytes long, whatever the fragments and the call outcomes.
C1_ByteBudget ==
    /\ \A i \in 1 .. Len(calls) :
           calls[i].site # "notify" => GetTextByteLength(calls[i].text) <= 4000
    /\ \A t \in DOMAIN tasks :
           tasks[t].pc \in InLockedSection =>
               GetTextByteLength(tasks[t].arg) <= 4000

\* C1 witness: a text that had to be cut to the limit was passed to the
\* platform (the old message of a proactive split, or a cut remainder).
C1_Witness ==
    \E i \in 1 .. Len(calls) :
        /\ calls[i].site \in {"finalize", "final_send"}
        /\ GetTextByteLength(calls[i].text) > 3990
        /\ Last(calls[i].text)[1] = "ELLIPSIS"

\* C2: while a call for a key stays suspended inside its locked section, no
\* step of another call changes that key's buffer or tracked id, and no
\* other call for the key is inside its locked section.
C2_LockedSectionsNeverOverlap ==
    [][\A u \in DOMAIN tasks :
          (tasks[u].pc \in InLockedSection /\ tasks'[u] = tasks[u]) =>
              /\ consolidated_message_buffers'[tasks[u].key]
                     = consolidated_message_buffers[tasks[u].key]
              /\ consolidated_message_ids'[tasks[u].key]
                     = consolidated_message_ids[tasks[u].key]
              /\ \A v \in DOMAIN tasks \ {u} :
                     tasks'[v].key = tasks[u].key
                         => tasks'[v].pc \notin InLockedSection]_vars

\* C2 witness: a call is suspended in a platform call inside the locked
\* section while a clear for the same key waits for the lock.
C2_Witness ==
    \E u, v \in DOMAIN tasks :
        /\ tasks[u].pc \in InLockedSection
        /\ tasks[v].pc = "wait_lock"
        /\ tasks[v].op = "clear"
        /\ tasks[v].key = tasks[u].key

\* C3: when no fragment for a key is being processed, the key tracks at most
\* one message id, and a tracked id is the id of the message that the most
\* recent successful send or edit for that key went to.
C3_TrackedIsLastDelivered ==
    \A k \in Keys :
        (Quiescent(k) /\ consolidated_message_ids[k] # NoId) =>
            /\ consolidated_message_ids[k] \in 1 .. (next_ts - 1)
            /\ DeliveredFor(k) # <<>>
            /\ Last(DeliveredFor(k)).id = consolidated_message_ids[k]

\* C3 witness: a key at rest tracks a message after an edit of an earlier
\* message failed and the buffer was sent as a new message.
C3_Witness ==
    \E k \in Keys :
        /\ Quiescent(k)
        /\ consolidated_message_ids[k] # NoId
        /\ \E i \in 1 .. Len(calls) :
               /\ calls[i].key = k
               /\ calls[i].site = "final_edit"
               /\ ~calls[i].ok
               /\ calls[i].id # consolidated_message_ids[k]

\* The text of a completed call with the continuation notice taken off the
\* parts of an oversized split.
Unmarked(c) ==
    IF c.site = "split"
    THEN TakeChars(c.text, CharLen(c.text) - CharLen(ContinuationNotice))
    ELSE c.text

RECURSIVE ConcatUnmarked(_)
ConcatUnmarked(q) ==
    IF q = <<>> THEN <<>> ELSE Cat(Unmarked(q[1]), ConcatUnmarked(Tail(q)))

\* Task t is a completed log fragment that found the key's buffer empty and
\* whose platform calls all succeeded.
DeliveredAlone(t) ==
    /\ tasks[t].op = "emit"
    /\ tasks[t].pc = "done"
    /\ tasks[t].existing = <<>>
    /\ CallsOf(t) # <<>>
    /\ \A i \in 1 .. Len(CallsOf(t)) :
           CallsOf(t)[i].ok /\ CallsOf(t)[i].site # "notify"

\* The messages of task t are all new messages, at least two, and joined in
\* order without the notices they are the stripped fragment.
SplitReproduces(t) ==
    /\ Len(CallsOf(t)) >= 2
    /\ \A i \in 1 .. Len(CallsOf(t)) : CallsOf(t)[i].op = "send"
    /\ ConcatUnmarked(CallsOf(t)) = Strip(tasks[t].text)

\* Task t's pending part of an oversized split completes in this step.
SplitPartReturns(t) ==
    /\ tasks[t].pc = "split_call"
    /\ Len(calls') = Len(calls) + 1
    /\ Last(calls').task = t

SplittingAlone(t) ==
    /\ tasks[t].op = "emit"
    /\ tasks[t].pc = "split_call"
    /\ tasks[t].existing = <<>>
    /\ \A i \in 1 .. Len(CallsOf(t)) : CallsOf(t)[i].ok

C5_EverySplitShrinksBuffer ==
    [][\A t \in DOMAIN tasks :
          (SplitPartReturns(t) /\ Last(calls').ok)
              => CharLen(tasks'[t].updated) < CharLen(tasks[t].updated)]_vars

\* The text of a pending call is whole characters of `original` followed by
\* `marker`.
PrefixThenMarker(text, original, marker) ==
    /\ CharLen(text) >= CharLen(marker)
    /\ text = Cat(TakeChars(original, CharLen(text) - CharLen(marker)), marker)

\* C6: a text cut at a byte limit is a prefix of whole characters of the
\* original followed by the marker (the notice for a split part, the ellipsis
\* for a truncation), and after a split part was sent the remaining buffer
\* starts at the first character that was not sent.
C6_CutsAtCharacterBoundary ==
    /\ [](\A t \in DOMAIN tasks :
            /\ tasks[t].pc = "split_call" =>
                   PrefixThenMarker(tasks[t].arg, tasks[t].updated,
                                    ContinuationNotice)
            /\ tasks[t].pc = "finalize_edit" =>
                   \/ tasks[t].arg = Cat(tasks[t].existing, ContinuationNotice)
                   \/ PrefixThenMarker(tasks[t].arg,
                          Cat(tasks[t].existing, ContinuationNotice), Ellipsis))
    /\ [][\A t \in DOMAIN tasks :
            SplitPartReturns(t) =>
                IF Last(calls').ok
                THEN Cat(TakeChars(tasks[t].arg,
                             CharLen(tasks[t].arg) - CharLen(ContinuationNotice)),
                         tasks'[t].updated) = tasks[t].updated
                ELSE \/ tasks'[t].updated = tasks[t].updated
                     \/ PrefixThenMarker(tasks'[t].updated, tasks[t].updated,
                                         Ellipsis)]_vars

\* C6 witness: a split part is pending whose byte limit (3600 less the notice
\* and the ellipsis) falls inside a multi-byte character of the buffer.
C6_Witness ==
    \E t \in DOMAIN tasks :
        /\ tasks[t].pc = "split_call"
        /\ LET k     == SentChars(tasks[t].arg)
               limit == 3600 - GetTextByteLength(ContinuationNotice)
                             - GetTextByteLength(Ellipsis)
           IN  /\ GetTextByteLength(TakeChars(tasks[t].updated, k)) < limit
               /\ GetTextByteLength(TakeChars(tasks[t].updated, k + 1)) > limit

\* Three fragments `text` were processed one after the other for the
\* round's key, every platform call succeeding, and nothing else was done.
ThreeOf(text) ==
    /\ \A t \in DOMAIN tasks :
           IF t <= 3
           THEN /\ tasks[t].pc = "done"
                /\ tasks[t].text = text
                /\ LogType(CanonicalizeMessageType(tasks[t].message_type))
                       = "assistant"
                /\ tasks[t].key = ConsolidatedMessageKey(Ctx1)
           ELSE tasks[t].pc = "idle"
    /\ \A i \in 1 .. Len(calls) : calls[i].ok
    /\ \A i, j \in 1 .. Len(calls) : i <= j => calls[i].task <= calls[j].task

TwoJoined == Cat(Cat(A1500, Separator), A1500)

ThreeJoined == Cat(Cat(TwoJoined, Separator), A1500)

\* C7 as stated: three fragments of about 1500 bytes give one send and then
\* two edits of the same message, each carrying the full joined buffer.
C7_AsStated ==
    ThreeOf(A1500) =>
        /\ Len(calls) = 3
        /\ calls[1].op = "send" /\ calls[1].text = A1500
        /\ calls[2].op = "edit" /\ calls[2].id = calls[1].id
        /\ calls[2].text = TwoJoined
        /\ calls[3].op = "edit" /\ calls[3].id = calls[1].id
        /\ calls[3].text = ThreeJoined

\* C7 amended: the first fragment is sent, the second is an edit of that
\* message carrying both fragments joined, and the third (the joined buffer
\* would be 4514 bytes, above the split threshold) gives an edit of the same
\* message to the two fragments plus the continuation notice and then a send
\* of a new message holding the third fragment alone, which becomes the
\* tracked message.
C7_ThirdFragmentSplits ==
    ThreeOf(A1500) =>
        /\ Len(calls) = 4
        /\ calls[1].op = "send" /\ calls[1].text = A1500
        /\ calls[2].op = "edit" /\ calls[2].id = calls[1].id
        /\ calls[2].text = TwoJoined
        /\ calls[3].op = "edit" /\ calls[3].id = calls[1].id
        /\ calls[3].text = Cat(TwoJoined, ContinuationNotice)
        /\ calls[4].op = "send" /\ calls[4].id # calls[1].id
        /\ calls[4].text = A1500
        /\ consolidated_message_ids[ConsolidatedMessageKey(Ctx1)] = calls[4].id
        /\ consolidated_message_buffers[ConsolidatedMessageKey(Ctx1)] = A1500

\* C7 witness: the three fragments have been processed.
C7_Witness == ThreeOf(A1500) /\ Len(calls) = 4

\* The call of task record tr is a log fragment whose canonical kind the
\* settings of its channel hide.
HiddenFragment(tr) ==
    /\ tr.op = "emit"
    /\ Strip(tr.text) # <<>>
    /\ CanonicalizeMessageType(tr.message_type)
           \in {"system", "assistant", "toolcall"}
    /\ IsMessageTypeHidden(tr.key[1], CanonicalizeMessageType(tr.message_type))

\* C8: a log fragment of a hidden kind makes no platform call, at the time
\* or later, and the step that handles it leaves every stored buffer and
\* tracked id as it was.
C8_HiddenFragmentIsDropped ==
    /\ [](\A t \in DOMAIN tasks :
            HiddenFragment(tasks[t]) =>
                tasks[t].pc = "done" /\ CallsOf(t) = <<>>)
    /\ [][\A t \in DOMAIN tasks :
            (tasks[t].pc = "idle" /\ HiddenFragment(tasks'[t])) =>
                /\ calls' = calls
                /\ consolidated_message_buffers' = consolidated_message_buffers
                /\ consolidated_message_ids' = consolidated_message_ids]_vars

\* C8 witness: a hidden fragment was handled for a key that has a stored
\* buffer and a tracked message.
C8_Witness ==
    \E t \in DOMAIN tasks :
        /\ HiddenFragment(tasks[t])
        /\ tasks[t].pc = "done"
        /\ consolidated_message_buffers[tasks[t].key] # <<>>
        /\ consolidated_message_ids[tasks[t].key] # NoId

\* Task t returns from the locked section in this step, after a platform
\* call of its own failed.
ReturnsAfterFailure(t) ==
    /\ tasks[t].pc \in InLockedSection
    /\ tasks'[t].pc = "done"
    /\ \E i \in 1 .. Len(calls') : calls'[i].task = t /\ ~calls'[i].ok

\* The sites of the platform calls task t has made when this step is done.
SitesOf(t) == {calls'[i].site : i \in {j \in 1 .. Len(calls') : calls'[j].task = t}}

\* The ids whose edit by task t failed.
FailedEdits(t) ==
    {calls'[i].id : i \in {j \in 1 .. Len(calls') :
        calls'[j].task = t /\ calls'[j].op = "edit" /\ ~calls'[j].ok}}

\* C9 as stated: after a call in which a send or edit failed, the stored
\* buffer is the previous buffer joined with the new fragment, and the id
\* whose edit failed is not tracked.
C9_AsStated ==
    [][\A t \in DOMAIN tasks :
          ReturnsAfterFailure(t) =>
              /\ consolidated_message_buffers'[tasks[t].key]
                     = JoinChunk(tasks[t].existing, Strip(tasks[t].text))
              /\ consolidated_message_ids'[tasks[t].key] \notin FailedEdits(t)]_vars

\* C9 amended: the same when the failed call is the final edit or send of a
\* fragment that needed neither a proactive split nor an oversized split; the
\* key then tracks nothing if the final send failed, and the new message if
\* the send after a failed edit succeeded.
C9_FinalFailureKeepsBuffer ==
    [][\A t \in DOMAIN tasks :
          (ReturnsAfterFailure(t) /\ SitesOf(t) \subseteq {"final_edit", "final_send"})
              =>
              /\ consolidated_message_buffers'[tasks[t].key]
                     = JoinChunk(tasks[t].existing, Strip(tasks[t].text))
              /\ consolidated_message_ids'[tasks[t].key] \notin FailedEdits(t)
              /\ IF Last(calls').ok
                 THEN consolidated_message_ids'[tasks[t].key] = Last(calls').id
                 ELSE consolidated_message_ids'[tasks[t].key] = NoId]_vars

\* C9 witness: a fragment joined to an earlier buffer was stored although its
\* final send failed, and the key tracks nothing.
C9_Witness ==
    \E t \in DOMAIN tasks :
        /\ tasks[t].pc = "done"
        /\ tasks[t].existing # <<>>
        /\ CallsOf(t) # <<>>
        /\ Last(calls).task = t
        /\ Last(calls).site = "final_send"
        /\ ~Last(calls).ok
        /\ \A i \in 1 .. Len(CallsOf(t)) :
               CallsOf(t)[i].site \in {"final_edit", "final_send"}
        /\ consolidated_message_buffers[tasks[t].key]
               = JoinChunk(tasks[t].existing, Strip(tasks[t].text))
        /\ consolidated_message_ids[tasks[t].key] = NoId

\* The call of task record tr is a log fragment (system, assistant, toolcall).
LogFragment(tr) ==
    /\ tr.op = "emit"
    /\ CanonicalizeMessageType(tr.message_type)
           \in {"system", "assistant", "toolcall"}

\* C10: no exception leaves emit_agent_message for a log fragment, and a
\* key's lock is held only by a call that is still inside the locked
\* section: once the call has returned the lock is free for the next one.
C10_LogFragmentNeverRaises ==
    /\ \A t \in DOMAIN tasks :
           LogFragment(tasks[t]) => tasks[t].pc # "raised"
    /\ \A k \in Keys :
           lock_holder[k] # NoTask =>
               /\ tasks[lock_holder[k]].pc \in InLockedSection
               /\ tasks[lock_holder[k]].key = k

\* C10 witness: a log fragment whose send raised has returned, and a later
\* fragment for the same key was processed and delivered after it.
C10_Witness ==
    \E t, u \in DOMAIN tasks :
        /\ t < u
        /\ LogFragment(tasks[t]) /\ LogFragment(tasks[u])
        /\ tasks[t].key = tasks[u].key
        /\ tasks[t].pc = "done" /\ tasks[u].pc = "done"
        /\ \E i \in 1 .. Len(CallsOf(t)) :
               CallsOf(t)[i].op = "send" /\ ~CallsOf(t)[i].ok
        /\ \E i \in 1 .. Len(CallsOf(u)) : CallsOf(u)[i].ok

\* Task u is suspended in a platform call inside the locked section of a key
\* other than k.
HoldsOtherKey(u, k) ==
    /\ tasks[u].pc \in InLockedSection
    /\ lock_holder[tasks[u].key] = u
    /\ tasks[u].key # k

\* C11: processing for key A never blocks a fragment for another key B.  A
\* visible log fragment for B that starts while a call for A is suspended
\* holding A's lock, B's own lock being free, acquires B's lock in that very
\* step; a call queues only on the lock of its own key, behind a call for
\* that key or about to be handed the lock; and a step of a call changes
\* nothing of a call for another key nor of that key's lock.
C11_OtherKeyNeverBlocks ==
    /\ [][\A t \in DOMAIN tasks :
            ( /\ tasks[t].pc = "idle"
              /\ tasks'[t].op = "emit"
              /\ tasks'[t].pc \notin {"done", "notify_send"}
              /\ lock_holder[tasks'[t].key] = NoTask
              /\ lock_waiters[tasks'[t].key] = <<>>
              /\ \E u \in DOMAIN tasks : HoldsOtherKey(u, tasks'[t].key) )
                =>
                /\ tasks'[t].pc \in InLockedSection
                /\ lock_holder'[tasks'[t].key] = t]_vars
    /\ [](\A t \in DOMAIN tasks :
            tasks[t].pc = "wait_lock" =>
                LET k == tasks[t].key IN
                /\ \E i \in 1 .. Len(lock_waiters[k]) : lock_waiters[k][i] = t
                /\ \/ /\ lock_holder[k] # NoTask
                      /\ tasks[lock_holder[k]].key = k
                   \/ /\ lock_holder[k] = NoTask
                      /\ tasks[Head(lock_waiters[k])].pc = "wait_lock"
                      /\ tasks[Head(lock_waiters[k])].key = k)
    /\ [][\A t, u \in DOMAIN tasks :
            (tasks'[t] # tasks[t] /\ Active(u) /\ tasks[u].key # tasks'[t].key)
                =>
                /\ tasks'[u] = tasks[u]
                /\ lock_holder'[tasks[u].key] = lock_holder[tasks[u].key]
                /\ lock_waiters'[tasks[u].key] = lock_waiters[tasks[u].key]]_vars

\* C11 witness: a fragment that started after a call for another key had
\* taken its lock was delivered and has returned, while that other call is
\* still suspended in its first platform call.
C11_Witness ==
    \E t, u \in DOMAIN tasks :
        /\ u < t
        /\ HoldsOtherKey(u, tasks[t].key)
        /\ CallsOf(u) = <<>>
        /\ tasks[t].op = "emit"
        /\ tasks[t].pc = "done"
        /\ CallsOf(t) # <<>>
        /\ \A i \in 1 .. Len(CallsOf(t)) :
               CallsOf(t)[i].ok /\ CallsOf(t)[i].site = "final_send"

----------------------------------------------------------------------------
(* Diff texts                                                              *)

\* The header line "diff --git a/<old> b/<new>".
HeaderLine(old, new) == <<"diff --git", " a/", old, " b/", new>>

\* A line that starts with "diff --git" without the a/ b/ paths.
MalformedHeaderLine == <<"diff --git", " x y">>

\* line.startswith(prefix): the line's first part is the prefix or begins
\* with it, as "+++" begins with "+" and "---" with "-".
StartsWith(line, prefix) ==
    /\ line # <<>>
    /\ \/ line[1] = prefix
       \/ prefix = "+" /\ line[1] = "+++"
       \/ prefix = "-" /\ line[1] = "---"

\* The segment of file `path` in a diff: its header, an index line, a hunk
\* header and one added line whose text is the version.
Segment(path, version) ==
    << HeaderLine(path, path),
       <<"index">>,
       <<"@@", "1", "", "1", "">>,
       <<"+", version>> >>

Paths == <<"A", "B", "C">>

\* The versions file `path` is seen in; "" when the file has no diff.
Versions(path) == IF path = "B" THEN {"", "v1", "v2"} ELSE {"", "v1"}

RECURSIVE DiffLines(_, _)
DiffLines(choice, i) ==
    IF i > Len(Paths) THEN <<>>
    ELSE (IF choice[i] = "" THEN <<>> ELSE Segment(Paths[i], choice[i]))
             \o DiffLines(choice, i + 1)

\* What `git diff` prints: the segments of the files that differ, in path
\* order, every line ended by a newline (so split gives a last empty line);
\* nothing at all for a clean tree.
GitDiffOutput(choice) ==
    IF DiffLines(choice, 1) = <<>> THEN EmptyText
    ELSE DiffLines(choice, 1) \o EmptyText

WorkingDiffs ==
    {GitDiffOutput(choice) :
        choice \in {c \in [1 .. Len(Paths) -> {"", "v1", "v2"}] :
                       \A i \in 1 .. Len(Paths) : c[i] \in Versions(Paths[i])}}

\* not text.strip()
IsBlankText(text) ==
    \A i \in 1 .. Len(text) : text[i] = <<>> \/ text[i] = <<" ", "">>

\* "".join(parts) of a list of texts: the first line of a part continues
\* the last line of the part before.
JoinTextsBare(parts) ==
    LET F[i \in 0 .. Len(parts)] ==
            IF i = 0 THEN <<>>
            ELSE IF i = 1 THEN parts[1]
            ELSE SubSeq(F[i - 1], 1, Len(F[i - 1]) - 1)
                 \o <<Last(F[i - 1]) \o Head(parts[i])>>
                 \o Tail(parts[i])
    IN  IF parts = <<>> THEN EmptyText ELSE F[Len(parts)]

\* "\n".join(parts) of a list of texts.
JoinTexts(parts) ==
    LET F[i \in 0 .. Len(parts)] ==
            IF i = 0 THEN <<>> ELSE F[i - 1] \o parts[i]
    IN  IF parts = <<>> THEN EmptyText ELSE F[Len(parts)]

----------------------------------------------------------------------------
(* core/gist_service.py                                                    *)

\* current_file when no file is open (None; an empty path is falsy too).
NoFile == ""

\* line.split(" b/")[1:]: the parts after the first.
PartsAfterB(line) ==
    IF Len(line) >= 5 /\ line[4] = " b/" THEN <<line[5]>> ELSE <<>>

\* files[path] = content of a dict that keeps the order of first insertion.
DictSet(files, path, content) ==
    IF \E i \in 1 .. Len(files) : files[i].path = path
    THEN [i \in 1 .. Len(files) |->
             IF files[i].path = path
             THEN [path |-> path, content |-> content] ELSE files[i]]
    ELSE Append(files, [path |-> path, content |-> content])

\* files.get(path, "")
DictGet(files, path) ==
    IF \E i \in 1 .. Len(files) : files[i].path = path
    THEN (CHOOSE f \in {files[i] : i \in 1 .. Len(files)} : f.path = path).content
    ELSE EmptyText

\* Lines 188-211: the diff cut into the sections of its files, each from its
\* header line to the line before the next header.
ParseDiffToFiles(diff_output) ==
    LET Step[i \in 0 .. Len(diff_output)] ==
            IF i = 0
            THEN [files |-> <<>>, current_file |-> NoFile, current_content |-> <<>>]
            ELSE LET st == Step[i - 1]
                     line == diff_output[i]
                 IN  IF StartsWith(line, "diff --git")
                     THEN [files |-> IF st.current_file # NoFile
                                     THEN DictSet(st.files, st.current_file,
                                                  st.current_content)
                                     ELSE st.files,
                           current_file |-> IF Len(PartsAfterB(line)) >= 1
                                            THEN PartsAfterB(line)[1] ELSE NoFile,
                           current_content |-> <<line>>]
                     ELSE IF st.current_file # NoFile
                     THEN [st EXCEPT !.current_content = Append(@, line)]
                     ELSE st
        end == Step[Len(diff_output)]
    IN  IF end.current_file # NoFile
        THEN DictSet(end.files, end.current_file, end.current_content)
        ELSE end.files

\* The number of lines of diff_content that start with `prefix`.
CountLines(diff_content, prefix) ==
    Cardinality({i \in 1 .. Len(diff_content) :
                    StartsWith(diff_content[i], prefix)})

\* Lines 225-228: the number of lines of diff_content that start with
\* `sign` and not with `header`.
CountChanged(diff_content, sign, header) ==
    Cardinality({i \in 1 .. Len(diff_content) :
                    /\ StartsWith(diff_content[i], sign)
                    /\ ~StartsWith(diff_content[i], header)})

\* Lines 214-230.
ParseFileDiffInfo(file_path, diff_content) ==
    [path |-> file_path,
     insertions |-> CountChanged(diff_content, "+", "+++"),
     deletions |-> CountChanged(diff_content, "-", "---"),
     is_new |-> CountLines(diff_content, "new file mode") > 0,
     is_deleted |-> CountLines(diff_content, "deleted file mode") > 0,
     is_binary |-> CountLines(diff_content, "Binary files") > 0,
     diff_content |-> diff_content]

\* As lines 167-174, reporting every file of the current diff.
ChangedSectionsAll(current_files, previous_files) ==
    current_files

\* Lines 167-174: the sections of the current diff that are not, text for
\* text, the section the snapshot has for the same path.
ChangedSections(current_files, previous_files) ==
    SelectSeq(current_files,
              LAMBDA f : f.content # DictGet(previous_files, f.path))

\* Lines 148-185: get_incremental_diff for the diff `git diff` gave.
IncrementalDiff(session_key, current_diff) ==
    LET previous == diff_snapshots[session_key]
        previous_diff == IF previous.stored THEN previous.raw_diff ELSE EmptyText
        current_files == ParseDiffToFiles(current_diff)
        previous_files == IF previous_diff # EmptyText
                          THEN ParseDiffToFiles(previous_diff) ELSE <<>>
        changed == ChangedSections(current_files, previous_files)
        base == [NoIncremental EXCEPT !.called = TRUE,
                                      !.session_key = session_key,
                                      !.previous = previous,
                                      !.current_diff = current_diff]
    IN  IF IsBlankText(current_diff)
        THEN base
        ELSE [base EXCEPT
                !.file_diffs =
                    [i \in 1 .. Len(changed) |->
                        ParseFileDiffInfo(changed[i].path, changed[i].content)],
                !.incremental_diff_content =
                    JoinTexts([i \in 1 .. Len(changed) |-> changed[i].content]),
                !.full_diff_content = current_diff]

\* Lines 53-86: what get_git_diff returns, "" when running git failed.
GitDiffResults == {working_diff, EmptyText}

\* The agent, or the user, edits the working tree.
WorkingTreeChanges ==
    /\ \E d \in WorkingDiffs : d # working_diff /\ working_diff' = d
    /\ UNCHANGED <<diff_snapshots, incremental, besidesDiff>>

\* Lines 105-110: the snapshot made of what get_git_diff returned.
Captured(diff_output) == [stored |-> TRUE, raw_diff |-> diff_output]

\* As line 125, keeping the snapshot a key already has.
StoreSnapshotIfAbsent(session_key, snapshot) ==
    IF diff_snapshots[session_key].stored THEN diff_snapshots
    ELSE [diff_snapshots EXCEPT ![session_key] = snapshot]

\* Line 125: _diff_snapshots[session_key] = snapshot.
StoreSnapshot(session_key, snapshot) ==
    [diff_snapshots EXCEPT ![session_key] = snapshot]

\* Lines 102-129: save_diff_snapshot (raw_diff is the one field of the
\* snapshot that get_incremental_diff reads).
SaveDiffSnapshot(session_key) ==
    /\ \E d \in GitDiffResults :
           diff_snapshots' = StoreSnapshot(session_key, Captured(d))
    /\ UNCHANGED <<working_diff, incremental, besidesDiff>>

\* Lines 233-237: clear_diff_snapshot.
ClearDiffSnapshot(session_key) ==
    /\ diff_snapshots[session_key].stored
    /\ diff_snapshots' = [diff_snapshots EXCEPT ![session_key] = NoSnapshot]
    /\ UNCHANGED <<working_diff, incremental, besidesDiff>>

\* Lines 136-185: get_incremental_diff.
GetIncrementalDiff(session_key) ==
    /\ \E d \in GitDiffResults :
           incremental' = IncrementalDiff(session_key, d)
    /\ UNCHANGED <<diff_snapshots, working_diff, besidesDiff>>

\* The session the snapshots of which are followed.
DiffSessions == {SessionKey(Ctx1)}

DiffNext ==
    \/ WorkingTreeChanges
    \/ \E session_key \in DiffSessions :
        \/ SaveDiffSnapshot(session_key)
        \/ ClearDiffSnapshot(session_key)
        \/ GetIncrementalDiff(session_key)

\* gist_service.py at work, the controller left alone.
DiffInit == Init /\ OthersIdle

DiffSpec == DiffInit /\ [][DiffNext]_others

----------------------------------------------------------------------------
(* Properties of get_incremental_diff                                      *)

\* The segment git printed for `path` in `text` is the one of `version`.
HasSegment(text, path, version) ==
    \E i \in 1 .. Len(text) :
        /\ i + Len(Segment(path, version)) - 1 <= Len(text)
        /\ SubSeq(text, i, i + Len(Segment(path, version)) - 1)
               = Segment(path, version)

\* `text` has a segment for `path`.
HasFile(text, path) == \E v \in Versions(path) \ {""} : HasSegment(text, path, v)

\* The paths get_incremental_diff reported as changed, in order.
ChangedFiles == [i \in 1 .. Len(incremental.file_diffs) |->
                    incremental.file_diffs[i].path]

Reported(path) == \E i \in 1 .. Len(ChangedFiles) : ChangedFiles[i] = path

\* The last call of get_incremental_diff found a snapshot and a diff.
ComparedWithSnapshot ==
    /\ incremental.called
    /\ incremental.previous.stored
    /\ ~IsBlankText(incremental.current_diff)

\* C12: a file whose diff is the same in the stored snapshot and in the
\* current diff is not among the changed files, and its diff is not part of
\* the incremental diff text.
C12_UnchangedFileNotReported ==
    ComparedWithSnapshot =>
        \A i \in 1 .. Len(Paths) : \A v \in Versions(Paths[i]) \ {""} :
            ( /\ HasSegment(incremental.previous.raw_diff, Paths[i], v)
              /\ HasSegment(incremental.current_diff, Paths[i], v) )
                =>
                /\ ~Reported(Paths[i])
                /\ ~HasSegment(incremental.incremental_diff_content, Paths[i], v)

----------------------------------------------------------------------------
(* core/diff_parser.py: parse_unified_diff                                 *)

\* The longest input, in lines.
MaxLines == 3

\* A hunk header "@@ -<os>[,<oc>] +<ns>[,<nc>] @@"; a count that is left out
\* is "".
HunkLine(old_start, old_count, new_start, new_count) ==
    <<"@@", old_start, old_count, new_start, new_count>>

\* A number written with 5000 digits.
HugeNumber == "9 (5000 times)"

\* The lines an input is made of.
LineAlphabet ==
    { HeaderLine("A", "A"), HeaderLine("B", "C"), MalformedHeaderLine,
      <<"new file mode">>,
      HunkLine("5", "", "5", ""), HunkLine("1", "0", "1", "2"),
      HunkLine(HugeNumber, "", "1", ""),
      <<"+", "x">>, <<" ", "">>, <<>> }

ParseInputs == UNION {[1 .. n -> LineAlphabet] : n \in 1 .. MaxLines}

\* int() of a string of digits raises ValueError when the string is longer
\* than the interpreter's limit for integer strings (4300 digits unless the
\* process changed it).
IntRaises(digits) == digits = HugeNumber

\* int() of a string of digits.
ToInt(digits) ==
    CASE digits = "0" -> 0
      [] digits = "1" -> 1
      [] digits = "2" -> 2
      [] digits = "5" -> 5

\* Lines 56-62: re.match(r"diff --git a/(.*) b/(.*)", line), "unknown" twice
\* when it does not match.
HeaderPaths(line) ==
    IF Len(line) = 5 /\ line[2] = " a/" /\ line[4] = " b/"
    THEN [old_path |-> line[3], new_path |-> line[5]]
    ELSE [old_path |-> "unknown", new_path |-> "unknown"]

\* Lines 58-62: a new FileDiff.
NewFileDiff(paths) ==
    [old_path |-> paths.old_path, new_path |-> paths.new_path, hunks |-> <<>>,
     is_new_file |-> FALSE, is_deleted_file |-> FALSE, is_binary |-> FALSE]

\* Line 82: the hunk pattern matches.
IsHunkHeader(line) == Len(line) = 5 /\ line[1] = "@@"

\* As lines 89 and 91, with `int(group or 0) or 1`: a count of 0 is lost.
CountOrOneZeroLost(group) ==
    IF group = "" \/ ToInt(group) = 0 THEN 1 ELSE ToInt(group)

\* Lines 89 and 91: int(group or 1).
CountOrOne(group) == IF group = "" THEN 1 ELSE ToInt(group)

\* Lines 87-93: a new DiffHunk.
NewDiffHunk(line) ==
    [old_start |-> ToInt(line[2]), old_count |-> CountOrOne(line[3]),
     new_start |-> ToInt(line[4]), new_count |-> CountOrOne(line[5]),
     changes |-> <<>>]

\* Lines 52-53, 84-85, 108-109: the open hunk, if any, joins its file.
WithOpenHunk(current_file, current_hunk) ==
    IF current_hunk # <<>>
    THEN [current_file EXCEPT !.hunks = Append(@, current_hunk[1])]
    ELSE current_file

\* As lines 107-110, the file that is open at the end not returned.
ClosedFilesOnly(files, current_file, current_hunk) == files

\* Lines 51-54 and 107-110: the open file, if any, joins the list.
WithOpenFile(files, current_file, current_hunk) ==
    IF current_file # <<>>
    THEN Append(files, WithOpenHunk(current_file[1], current_hunk))
    ELSE files

\* Lines 37-45.
ParseBegin ==
    /\ parser.pc = "called"
    /\ parser' = IF IsBlankText(parser.diff_output)
                 THEN [parser EXCEPT !.pc = "returned", !.result = <<>>]
                 ELSE [parser EXCEPT !.pc = "loop",
                                     !.lines = parser.diff_output, !.i = 1]
    /\ UNCHANGED besidesParser

\* The loop is at a line.
AtLine == parser.pc = "loop" /\ parser.i <= Len(parser.lines)

\* Lines 50-65: a header line.
ParseHeader ==
    /\ AtLine
    /\ StartsWith(parser.lines[parser.i], "diff --git")
    /\ parser' = [parser EXCEPT
           !.files = WithOpenFile(parser.files, parser.current_file,
                                  parser.current_hunk),
           !.current_file =
               <<NewFileDiff(HeaderPaths(parser.lines[parser.i]))>>,
           !.current_hunk = <<>>,
           !.i = @ + 1]
    /\ UNCHANGED besidesParser

FileFlags == {"new file mode", "deleted file mode", "Binary files"}

\* Lines 67-79: a line that marks the open file as new, deleted or binary.
ParseFileFlag ==
    LET line == parser.lines[parser.i] IN
    /\ AtLine
    /\ ~StartsWith(line, "diff --git")
    /\ parser.current_file # <<>>
    /\ \E flag \in FileFlags : StartsWith(line, flag)
    /\ parser' = [parser EXCEPT
           !.current_file[1].is_new_file =
               @ \/ StartsWith(line, "new file mode"),
           !.current_file[1].is_deleted_file =
               @ \/ StartsWith(line, "deleted file mode"),
           !.current_file[1].is_binary =
               @ \/ StartsWith(line, "Binary files"),
           !.i = @ + 1]
    /\ UNCHANGED besidesParser

\* Lines 81-95: a hunk header inside a file.
ParseHunkHeader ==
    LET line == parser.lines[parser.i] IN
    /\ AtLine
    /\ ~StartsWith(line, "diff --git")
    /\ parser.current_file # <<>>
    /\ IsHunkHeader(line)
    /\ parser' =
           IF \E g \in 2 .. 5 : IntRaises(line[g])
           THEN [parser EXCEPT
                   !.current_file =
                       <<WithOpenHunk(parser.current_file[1],
                                      parser.current_hunk)>>,
                   !.pc = "raised"]
           ELSE [parser EXCEPT
                   !.current_file =
                       <<WithOpenHunk(parser.current_file[1],
                                      parser.current_hunk)>>,
                   !.current_hunk = <<NewDiffHunk(line)>>,
                   !.i = @ + 1]
    /\ UNCHANGED besidesParser

\* As lines 98-103, without the test for "+++" and "---".
ChangeOfAnySign(line) ==
    IF line # <<>> /\ line[1] \in {"+", "+++"} THEN << <<"+", line[2]>> >>
    ELSE IF line # <<>> /\ line[1] \in {"-", "---"} THEN << <<"-", line[2]>> >>
    ELSE IF StartsWith(line, " ") THEN << <<" ", line[2]>> >>
    ELSE <<>>

\* Lines 98-103: the change a line stands for, its marker and the text
\* after the marker, if it stands for one.
ChangeOf(line) ==
    IF StartsWith(line, "+") /\ ~StartsWith(line, "+++")
    THEN << <<"+", line[2]>> >>
    ELSE IF StartsWith(line, "-") /\ ~StartsWith(line, "---")
    THEN << <<"-", line[2]>> >>
    ELSE IF StartsWith(line, " ") THEN << <<" ", line[2]>> >>
    ELSE <<>>

\* Lines 97-105: any other line; a change line joins the open hunk.
ParseOther ==
    LET line == parser.lines[parser.i] IN
    /\ AtLine
    /\ ~StartsWith(line, "diff --git")
    /\ parser.current_file # <<>> =>
           /\ \A flag \in FileFlags : ~StartsWith(line, flag)
           /\ ~IsHunkHeader(line)
    /\ parser' = [parser EXCEPT
           !.current_hunk =
               IF parser.current_hunk # <<>>
               THEN <<[parser.current_hunk[1] EXCEPT
                          !.changes = @ \o ChangeOf(line)]>>
               ELSE @,
           !.i = @ + 1]
    /\ UNCHANGED besidesParser

\* Lines 47 and 107-112: past the last line.
ParseEnd ==
    /\ parser.pc = "loop"
    /\ parser.i > Len(parser.lines)
    /\ parser' = [parser EXCEPT
           !.pc = "returned",
           !.result = WithOpenFile(parser.files, parser.current_file,
                                   parser.current_hunk)]
    /\ UNCHANGED besidesParser

ParseNext ==
    \/ ParseBegin
    \/ ParseHeader
    \/ ParseFileFlag
    \/ ParseHunkHeader
    \/ ParseOther
    \/ ParseEnd

\* parse_unified_diff called with any input, all else left alone.
ParseInit ==
    /\ Init
    /\ GistServiceInit
    /\ GistIdle
    /\ ResultIdle
    /\ PublishIdle
    /\ FormatterIdle
    /\ SaveIdle
    /\ \E diff_output \in ParseInputs : parser = ParserCalled(diff_output)

ParseSpec == ParseInit /\ [][ParseNext]_others

----------------------------------------------------------------------------
(* Properties of parse_unified_diff                                        *)

\* The positions of the lines of `text` that start with "diff --git", in
\* order.
HeaderPositions(text) ==
    LET F[i \in 0 .. Len(text)] ==
            IF i = 0 THEN <<>>
            ELSE IF StartsWith(text[i], "diff --git")
                 THEN Append(F[i - 1], i) ELSE F[i - 1]
    IN  F[Len(text)]

\* The lines that belong to the k-th header: those after it, up to the next
\* header or the end.
LinesOfHeader(text, k) ==
    LET pos == HeaderPositions(text)
        last == IF k < Len(pos) THEN pos[k + 1] - 1 ELSE Len(text)
    IN  SubSeq(text, pos[k] + 1, last)

Returned == parser.pc = "returned"

ReturnedHunks ==
    LET F[k \in 0 .. Len(parser.result)] ==
            IF k = 0 THEN <<>> ELSE F[k - 1] \o parser.result[k].hunks
    IN  F[Len(parser.result)]

\* The hunk header lines of the input that come after a "diff --git" line.
HunkLinesInFiles ==
    LET text == parser.diff_output
        pos == HeaderPositions(text)
    IN  IF pos = <<>> THEN <<>>
        ELSE SelectSeq(SubSeq(text, pos[1], Len(text)), IsHunkHeader)

\* The count a hunk header line stands for.
WrittenCount(group) ==
    CASE group = ""  -> 1
      [] group = "0" -> 0
      [] group = "1" -> 1
      [] group = "2" -> 2
      [] group = "5" -> 5

\* C15: the hunks returned are those of the hunk header lines, a count that
\* is left out being 1 and a count that is written, 0 included, being kept.
C15_OmittedCountIsOne ==
    Returned =>
        /\ Len(ReturnedHunks) = Len(HunkLinesInFiles)
        /\ \A h \in 1 .. Len(ReturnedHunks) :
               /\ ReturnedHunks[h].old_count = WrittenCount(HunkLinesInFiles[h][3])
               /\ ReturnedHunks[h].new_count = WrittenCount(HunkLinesInFiles[h][5])

\* C15 witness: "@@ -5 +5 @@" gave counts 1 and 1, "@@ -1,0 +1,2 @@" gave
\* counts 0 and 2.
C15_Witness ==
    /\ Returned
    /\ Len(ReturnedHunks) = 2
    /\ HunkLinesInFiles = <<HunkLine("5", "", "5", ""), HunkLine("1", "0", "1", "2")>>
    /\ ReturnedHunks[1].old_count = 1 /\ ReturnedHunks[1].new_count = 1
    /\ ReturnedHunks[2].old_count = 0 /\ ReturnedHunks[2].new_count = 2

\* C16: the parser never raises and returns only after it went through every
\* line of a non-blank input; a "diff --git" line without the a/ b/ paths gives a
\* FileDiff with both paths "unknown", and the lines after it, like those
\* after any header, go to its FileDiff; an empty or blank input gives the
\* empty list.
C16_MalformedInputDegrades ==
    /\ parser.pc # "raised"
    /\ Returned =>
           LET text == parser.diff_output
               pos == HeaderPositions(text)
           IN  /\ IsBlankText(text) => parser.result = <<>>
               /\ ~IsBlankText(text) => parser.i = Len(text) + 1
               /\ Len(parser.result) = Len(pos)
               /\ \A k \in 1 .. Len(pos) :
                      /\ text[pos[k]] = MalformedHeaderLine =>
                             /\ parser.result[k].old_path = "unknown"
                             /\ parser.result[k].new_path = "unknown"
                      /\ parser.result[k].is_new_file
                             <=> \E j \in 1 .. Len(LinesOfHeader(text, k)) :
                                     StartsWith(LinesOfHeader(text, k)[j],
                                                "new file mode")
                      /\ Len(parser.result[k].hunks)
                             = Len(SelectSeq(LinesOfHeader(text, k), IsHunkHeader))

----------------------------------------------------------------------------
(* core/gist_service.py: create_diff_gist                                  *)

\* The diffs create_diff_gist is called with: none, blank, lines without a
\* file header, and the diffs of one, two and three files.
GistInputs ==
    { EmptyText,
      << <<" ", "">>, <<>> >>,
      << <<"+", "x">>, <<>> >>,
      GitDiffOutput(<<"v1", "", "">>),
      GitDiffOutput(<<"v1", "v2", "">>),
      GitDiffOutput(<<"v1", "v1", "v1">>) }

\* The exceptions a step may raise.
Exceptions == {"FileNotFoundError", "OSError"}

\* str(e)
StrOf(exception) == <<"str", exception>>

\* Line 323.
GhNotFound == <<"gh CLI not found. Install with: brew install gh">>

\* The characters of a path: the paths with a separator or an underscore
\* are spelt out, any other path is one piece without either.
CharsOf(file_path) ==
    CASE file_path = "a/b"  -> <<"a", "/", "b">>
      [] file_path = "a\\b" -> <<"a", "\\", "b">>
      [] file_path = "a_b"  -> <<"a", "_", "b">>
      [] OTHER              -> <<file_path>>

\* Lines 245-247: the name of a file's temporary copy: every "/" and every
\* "\" of the path replaced by "_", and ".diff" appended.
SanitizeFilename(file_path) ==
    [i \in 1 .. Len(CharsOf(file_path)) |->
        IF CharsOf(file_path)[i] \in {"/", "\\"} THEN "_"
        ELSE CharsOf(file_path)[i]] \o <<".diff">>

\* Line 286: the directory tempfile.mkdtemp makes.
TempDir == <<"tmp", "project-timestamp-">>

\* Line 290: os.path.join(temp_dir, safe_name)
TempPath(temp_dir, safe_name) == temp_dir \o safe_name

\* Lines 295-300: the file tempfile.NamedTemporaryFile makes.
NamedTempFile == <<"tmp", "project-timestamp-", ".diff">>

\* What the sharing tool prints.
Stdouts == {<<"https://gist.github.com/1", "\n">>, <<"\n">>}

Stderrs == {<<"\n", "not logged in", "\n">>, <<>>}

\* text.strip() of the tool's output, held as a list of pieces.
RECURSIVE StripOutput(_)
StripOutput(text) ==
    IF text = <<>> THEN <<>>
    ELSE IF Head(text) = "\n" THEN StripOutput(Tail(text))
    ELSE IF text[Len(text)] = "\n" THEN StripOutput(SubSeq(text, 1, Len(text) - 1))
    ELSE text

\* As lines 322-326, with the message of every exception returned.
MessageOfEvery(exception) == StrOf(exception)

\* Lines 322-326: the error returned for an exception.
ErrorOf(exception) ==
    IF exception = "FileNotFoundError" THEN GhNotFound ELSE StrOf(exception)

\* Lines 322-326: the exception is caught and the error returned, after the
\* finally block.
GistExcept(exception, tool) ==
    [gist EXCEPT !.pc = "finally", !.raised = <<exception>>, !.tool = tool,
                 !.gist_url = None, !.error = ErrorOf(exception)]

\* Lines 268-284 and 294.
GistBegin ==
    /\ gist.pc = "called"
    /\ gist' =
         IF IsBlankText(gist.diff_output)
         THEN [gist EXCEPT !.pc = "returned", !.error = <<"No diff content">>]
         ELSE IF ~gist.per_file
         THEN [gist EXCEPT !.pc = "named_temp"]
         ELSE IF ParseDiffToFiles(gist.diff_output) = <<>>
         THEN [gist EXCEPT !.pc = "finally", !.error = <<"No files to diff">>]
         ELSE [gist EXCEPT !.pc = "mkdtemp",
                           !.files_dict = ParseDiffToFiles(gist.diff_output)]
    /\ UNCHANGED <<fs, besidesGist>>

\* Line 286: the directory is made, or mkdtemp raises.
GistMkdtemp ==
    /\ gist.pc = "mkdtemp"
    /\ \/ /\ gist' = [gist EXCEPT !.pc = "write", !.temp_dir = TempDir]
          /\ fs' = fs \cup {TempDir}
       \/ /\ \E e \in Exceptions : gist' = GistExcept(e, gist.tool)
          /\ UNCHANGED fs
    /\ UNCHANGED besidesGist

\* What comes after a temporary file was written and listed.
AfterWrite(temp_files) ==
    IF gist.per_file /\ Len(temp_files) < Len(gist.files_dict)
    THEN "write" ELSE "exec"

\* Lines 288-293: the next file is opened, written and listed; open raises
\* and no file is made; or write raises and the file made is not listed.
GistWriteFile ==
    LET temp_path ==
            TempPath(gist.temp_dir,
                SanitizeFilename(gist.files_dict[Len(gist.temp_files) + 1].path))
    IN  /\ gist.pc = "write"
        /\ \/ /\ gist' = [gist EXCEPT
                            !.temp_files = Append(@, temp_path),
                            !.pc = AfterWrite(Append(gist.temp_files, temp_path))]
              /\ fs' = fs \cup {temp_path}
           \/ /\ \E e \in Exceptions : gist' = GistExcept(e, gist.tool)
              /\ UNCHANGED fs
           \/ /\ gist' = GistExcept("OSError", gist.tool)
              /\ fs' = fs \cup {temp_path}
        /\ UNCHANGED besidesGist

\* Lines 295-302: the same for the one file of the whole diff.
GistNamedTemp ==
    /\ gist.pc = "named_temp"
    /\ \/ /\ gist' = [gist EXCEPT !.temp_files = <<NamedTempFile>>,
                                  !.pc = "exec"]
          /\ fs' = fs \cup {NamedTempFile}
       \/ /\ \E e \in Exceptions : gist' = GistExcept(e, gist.tool)
          /\ UNCHANGED fs
       \/ /\ gist' = GistExcept("OSError", gist.tool)
          /\ fs' = fs \cup {NamedTempFile}
    /\ UNCHANGED besidesGist

\* Lines 304-310: the tool is started; a missing binary raises
\* FileNotFoundError, any other failure another exception.
GistExec ==
    /\ gist.pc = "exec"
    /\ \/ gist' = [gist EXCEPT !.pc = "communicate", !.tool = "started"]
       \/ gist' = GistExcept("FileNotFoundError", "missing")
       \/ gist' = GistExcept("OSError", "raised")
    /\ UNCHANGED <<fs, besidesGist>>

\* Lines 311-320: the tool ends, or waiting for it raises.
GistCommunicate ==
    /\ gist.pc = "communicate"
    /\ \/ \E stdout \in Stdouts :
             gist' = [gist EXCEPT !.pc = "finally", !.tool = "exit 0",
                                  !.output = stdout,
                                  !.gist_url = StripOutput(stdout),
                                  !.error = None]
       \/ \E stderr \in Stderrs :
             gist' = [gist EXCEPT !.pc = "finally", !.tool = "exit 1",
                                  !.output = stderr,
                                  !.gist_url = None,
                                  !.error = StripOutput(stderr)]
       \/ gist' = GistExcept("OSError", "raised")
    /\ UNCHANGED <<fs, besidesGist>>

\* Lines 327-337: the listed files are unlinked, then the directory is
\* removed, which fails (silently) unless it is empty.
GistFinally ==
    LET listed == {gist.temp_files[i] : i \in 1 .. Len(gist.temp_files)}
        unlinked == fs \ listed
        Inside(path) == Len(path) > Len(TempDir)
                            /\ SubSeq(path, 1, Len(TempDir)) = TempDir
                            /\ path # NamedTempFile
    IN  /\ gist.pc = "finally"
        /\ fs' = IF gist.temp_dir # None /\ ~\E path \in unlinked : Inside(path)
                 THEN unlinked \ {gist.temp_dir}
                 ELSE unlinked
        /\ gist' = [gist EXCEPT !.pc = "returned"]
        /\ UNCHANGED besidesGist

GistNext ==
    \/ GistBegin
    \/ GistMkdtemp
    \/ GistWriteFile
    \/ GistNamedTemp
    \/ GistExec
    \/ GistCommunicate
    \/ GistFinally

\* create_diff_gist called with any diff, per file or not, all else left
\* alone.
GistInit ==
    /\ Init
    /\ GistServiceInit
    /\ ParserIdle
    /\ ResultIdle
    /\ PublishIdle
    /\ FormatterIdle
    /\ SaveIdle
    /\ fs = {}
    /\ \E diff_output \in GistInputs, per_file \in BOOLEAN :
           gist = GistCalled(diff_output, per_file)

GistSpec == GistInit /\ [][GistNext]_others

----------------------------------------------------------------------------
(* Properties of create_diff_gist                                          *)

GistReturned == gist.pc = "returned"

\* C17: once create_diff_gist has returned, no temporary file and no
\* temporary directory it made exists, whatever the tool did and whichever
\* step raised.
C17_NoTemporaryFileRemains == GistReturned => fs = {}

\* What is left of the tool's output once the white space around it is
\* taken off.
Trimmed(output) ==
    CASE output = <<"https://gist.github.com/1", "\n">>
             -> <<"https://gist.github.com/1">>
      [] output = <<"\n">> -> <<>>
      [] output = <<"\n", "not logged in", "\n">> -> <<"not logged in">>
      [] output = <<>> -> <<>>

----------------------------------------------------------------------------
(* core/controller.py: emit_agent_message, result fragments                *)

\* Lines 295-296: _get_result_max_chars.
GetResultMaxChars == 30000

\* Lines 301-302: the fixed texts around a summary, each piece of literal
\* text held as one run of its length in characters.
SummaryPrefix ==
    <<Run("Result too long; showing a summary.", 35), Run("LF", 2)>>

SummarySuffix ==
    <<Run("LF", 2), Run("ELLIPSIS", 1),
      Run("(truncated; see result.md for full output)", 42)>>

\* As _build_result_summary, with no room left for the prefix and suffix.
BuildSummaryNoReserve(text, max_chars) ==
    IF CharLen(text) <= max_chars THEN text
    ELSE Cat(Cat(SummaryPrefix, TakeChars(text, max_chars)), SummarySuffix)

\* Lines 298-304: _build_result_summary.
BuildResultSummary(text, max_chars) ==
    LET kept == max_chars - CharLen(SummaryPrefix) - CharLen(SummarySuffix)
        keep == IF kept > 0 THEN kept ELSE 0
    IN  IF CharLen(text) <= max_chars THEN text
        ELSE Cat(Cat(SummaryPrefix, TakeChars(text, keep)), SummarySuffix)

\* Line 493: the message sent when the upload raised.
Apology == <<Run("upload failed; send in parts instead?", 37)>>

\* The result texts emit_agent_message is given: blank, short, of exactly
\* the greatest length sent whole, one character longer, and one whose
\* characters beyond the part a summary keeps differ from that part.
ResultTexts ==
    {Blank, Hello, <<Run("r", 30000)>>, <<Run("r", 30001)>>,
     <<Run("r", 29918), Run("s", 100)>>}

\* config.platform
Platforms == {"slack", "telegram"}

\* The working-tree diffs and the snapshots a result is delivered with.
ResultDiffs ==
    {EmptyText, GitDiffOutput(<<"v1", "", "">>), GitDiffOutput(<<"v1", "v2", "">>)}

ResultSnapshots ==
    {NoSnapshot,
     [stored |-> TRUE, raw_diff |-> EmptyText],
     [stored |-> TRUE, raw_diff |-> GitDiffOutput(<<"v1", "", "">>)]}

\* What the delivery of a result leaves alone.
besidesResult == <<vars, working_diff, parser, publish, formatter, saved>>

\* `if x:` of an Optional[str].
Truthy(x) == x # None /\ x # <<>>

\* As the message of lines 326-345, listing every file and never a note.
NotificationOfAllFiles(gist_url, file_diffs) ==
    [gist_url |-> gist_url,
     files |-> Len(file_diffs),
     stats_summary |-> <<0, 0>>,
     file_lines |->
        [i \in 1 .. Len(file_diffs) |->
            [icon |-> IF file_diffs[i].is_new THEN "new"
                      ELSE IF file_diffs[i].is_deleted THEN "deleted"
                      ELSE "modified",
             path |-> file_diffs[i].path,
             stats |-> <<file_diffs[i].insertions, file_diffs[i].deletions>>]],
     more |-> 0]

\* Lines 326-353: the notification's message: the link, the number of
\* files and the totals, a line with icon, path and counts for each of the
\* first five files, and the number of the files beyond them.
NotificationMessage(gist_url, file_diffs) ==
    LET shown == SubSeq(file_diffs, 1, Min(5, Len(file_diffs)))
        Sum[i \in 0 .. Len(shown)] ==
            IF i = 0 THEN <<0, 0>>
            ELSE <<Sum[i - 1][1] + shown[i].insertions,
                   Sum[i - 1][2] + shown[i].deletions>>
    IN  [gist_url |-> gist_url,
         files |-> Len(file_diffs),
         stats_summary |-> Sum[Len(shown)],
         file_lines |->
            [i \in 1 .. Len(shown) |->
                [icon |-> IF shown[i].is_new THEN "new"
                          ELSE IF shown[i].is_deleted THEN "deleted"
                          ELSE "modified",
                 path |-> shown[i].path,
                 stats |-> <<shown[i].insertions, shown[i].deletions>>]],
         more |-> IF Len(file_diffs) > 5 THEN Len(file_diffs) - 5 ELSE 0]

\* A platform call of the delivery completes with `outcome` and the call
\* goes on at `pc`.
ResultAfterCall(site, text, outcome, pc) ==
    [result EXCEPT !.calls = Append(@, [site |-> site, text |-> text,
                                        ok |-> outcome = "ok"]),
                   !.pc = pc]

\* As clear_diff_snapshot, with nothing deleted.
SnapshotsKept(session_key) == diff_snapshots

\* gist_service.py lines 233-237: clear_diff_snapshot deletes the key's
\* snapshot, if there is one.
SnapshotsCleared(session_key) ==
    [diff_snapshots EXCEPT ![session_key] = NoSnapshot]

\* Lines 452-453 and 467-469: a blank text returns at once; a result of at
\* most 30000 characters is sent whole, a longer one as a summary.
ResultBegin ==
    /\ result.pc = "called"
    /\ result' = [result EXCEPT !.pc =
                     IF Strip(result.text) = <<>> THEN "returned"
                     ELSE IF CharLen(result.text) <= GetResultMaxChars
                          THEN "send"
                          ELSE "summary_send"]
    /\ UNCHANGED <<diff_snapshots, incremental, fs, gist, besidesResult>>

\* Lines 470-472: the send of the whole text is not inside any try.
ResultSend ==
    /\ result.pc = "send"
    /\ \E outcome \in Outcomes("send") :
           result' = ResultAfterCall("result", result.text, outcome,
                        IF outcome = "ok" THEN "notification" ELSE "raised")
    /\ UNCHANGED <<diff_snapshots, incremental, fs, gist, besidesResult>>

\* Lines 474-481: the summary is sent, then the upload is attempted when the
\* platform is Slack and the adapter has upload_markdown; nothing else is
\* done when it is not.
ResultSummarySend ==
    /\ result.pc = "summary_send"
    /\ \E outcome \in Outcomes("send") :
           result' = ResultAfterCall("summary",
                        BuildResultSummary(result.text, GetResultMaxChars),
                        outcome,
                        IF outcome # "ok" THEN "raised"
                        ELSE IF result.platform = "slack" /\ result.has_upload
                             THEN "upload"
                             ELSE "notification")
    /\ UNCHANGED <<diff_snapshots, incremental, fs, gist, besidesResult>>

\* Lines 482-490: upload_markdown returns, or raises and is caught.
ResultUpload ==
    /\ result.pc = "upload"
    /\ \E outcome \in Outcomes("send") :
           result' = ResultAfterCall("upload", result.text, outcome,
                        IF outcome = "ok" THEN "notification"
                        ELSE "apology_send")
    /\ UNCHANGED <<diff_snapshots, incremental, fs, gist, besidesResult>>

\* Lines 491-495: the apology is sent from the except clause, outside any
\* try of its own.
ResultApologySend ==
    /\ result.pc = "apology_send"
    /\ \E outcome \in Outcomes("send") :
           result' = ResultAfterCall("apology", Apology, outcome,
                        IF outcome = "ok" THEN "notification" ELSE "raised")
    /\ UNCHANGED <<diff_snapshots, incremental, fs, gist, besidesResult>>

\* Lines 497 and 309-324, gist_service.py lines 345-354:
\* _send_diff_gist_notification calls create_incremental_diff_gist, which
\* calls get_incremental_diff and, with no file changed, returns no link,
\* no file and no error, upon which the notification returns; with files
\* changed it calls create_diff_gist for the incremental diff, per file.
NotificationBegin ==
    LET session_key == SessionKey(result.context)
    IN  /\ result.pc = "notification"
        /\ \E d \in GitDiffResults :
             LET returned == IncrementalDiff(session_key, d)
             IN  /\ incremental' = returned
                 /\ IF returned.file_diffs = <<>>
                    THEN /\ result' = [result EXCEPT !.pc = "returned"]
                         /\ UNCHANGED gist
                    ELSE /\ result' = [result EXCEPT
                                         !.pc = "publishing",
                                         !.file_diffs = returned.file_diffs]
                         /\ gist' = GistCalled(
                                        returned.incremental_diff_content, TRUE)
        /\ UNCHANGED <<diff_snapshots, fs, besidesResult>>

\* Lines 315-324 and gist_service.py line 356: create_diff_gist has
\* returned; the notification returns on an error and without a link, and
\* goes on to send the message otherwise.
NotificationPublished ==
    /\ result.pc = "publishing"
    /\ gist.pc = "returned"
    /\ result' = [result EXCEPT !.pc =
                     IF Truthy(gist.error) THEN "returned"
                     ELSE IF ~Truthy(gist.gist_url) \/ result.file_diffs = <<>>
                          THEN "returned"
                          ELSE "buttons_send"]
    /\ UNCHANGED <<diff_snapshots, incremental, fs, gist, besidesResult>>

\* Lines 366-373: the message with the link is sent and the snapshot of the
\* session key is cleared; when the send raises, the exception is caught
\* and logged and the snapshot is not cleared.
NotificationSend ==
    /\ result.pc = "buttons_send"
    /\ \E outcome \in Outcomes("send") :
        /\ result' = ResultAfterCall("buttons",
                        NotificationMessage(gist.gist_url, result.file_diffs),
                        outcome, "returned")
        /\ diff_snapshots' = IF outcome = "ok"
                             THEN SnapshotsCleared(SessionKey(result.context))
                             ELSE diff_snapshots
    /\ UNCHANGED <<incremental, fs, gist, besidesResult>>

\* create_diff_gist is called with per_file=True, so the one file of a whole
\* diff (GistNamedTemp) is never made here.
ResultNext ==
    \/ ResultBegin
    \/ ResultSend
    \/ ResultSummarySend
    \/ ResultUpload
    \/ ResultApologySend
    \/ NotificationBegin
    \/ GistBegin
    \/ GistMkdtemp
    \/ GistWriteFile
    \/ GistExec
    \/ GistCommunicate
    \/ GistFinally
    \/ NotificationPublished
    \/ NotificationSend

\* emit_agent_message called with a result fragment for any conversation,
\* on any platform, with any snapshots stored and any working tree.
ResultInit ==
    /\ Init
    /\ ParserIdle
    /\ GistIdle
    /\ PublishIdle
    /\ FormatterIdle
    /\ SaveIdle
    /\ incremental = NoIncremental
    /\ working_diff \in ResultDiffs
    /\ diff_snapshots \in [SessionKeys -> ResultSnapshots]
    /\ \E context \in Contexts, text \in ResultTexts,
          platform \in Platforms, has_upload \in BOOLEAN :
           result = ResultCalled(context, text, platform, has_upload)

ResultSpec == ResultInit /\ [][ResultNext]_others

----------------------------------------------------------------------------
(* Properties of the delivery of result fragments                          *)

\* The platform call at `site` was made and succeeded.
ResultCallOk(site) ==
    \E i \in 1 .. Len(result.calls) :
        result.calls[i].site = site /\ result.calls[i].ok

\* The platform call at `site` was made.
ResultCallMade(site) ==
    \E i \in 1 .. Len(result.calls) : result.calls[i].site = site

\* The result, whole or as a summary, reached the platform.
ResultDelivered == ResultCallOk("result") \/ ResultCallOk("summary")

\* emit_agent_message has returned after delivering the result.
ReturnedAfterDelivery == result.pc = "returned" /\ ResultDelivered

\* create_incremental_diff_gist was called with the conversation's key.
PublishInvoked ==
    /\ incremental.called
    /\ incremental.session_key = SessionKey(result.context)

\* create_incremental_diff_gist returned a link, changed files and no error.
LinkObtained ==
    /\ incremental.file_diffs # <<>>
    /\ gist.pc = "returned"
    /\ ~Truthy(gist.error)
    /\ Truthy(gist.gist_url)

\* C19 as stated: once emit_agent_message has returned after delivering a
\* result fragment, the incremental publication was invoked for the
\* conversation's session key and no snapshot is stored under that key.
C19_SnapshotClearedAfterResult ==
    ReturnedAfterDelivery =>
        /\ PublishInvoked
        /\ ~diff_snapshots[SessionKey(result.context)].stored

\* C19 amended: once emit_agent_message has returned after delivering a
\* result fragment, the incremental publication was invoked for the
\* conversation's session key; the notification with the link was attempted
\* exactly when the publication returned a link with changed files and no
\* error; the snapshot of that key is cleared when that notification was
\* sent and is otherwise the snapshot the publication compared with; and no
\* step of the delivery changes the snapshot of another key.
C19_SnapshotClearedWhenNotified ==
    /\ [](ReturnedAfterDelivery =>
            /\ PublishInvoked
            /\ ResultCallMade("buttons") <=> LinkObtained
            /\ diff_snapshots[SessionKey(result.context)] =
                   IF ResultCallOk("buttons") THEN NoSnapshot
                   ELSE incremental.previous)
    /\ [][\A k \in SessionKeys :
             k # SessionKey(result.context)
                 => diff_snapshots'[k] = diff_snapshots[k]]_others

\* C19 witness: a snapshot was stored, the link of the round's changes was
\* sent after the result, and the snapshot is gone when the call returns.
C19_Witness ==
    /\ ReturnedAfterDelivery
    /\ incremental.previous.stored
    /\ ResultCallOk("buttons")
    /\ ~diff_snapshots[SessionKey(result.context)].stored

\* The delivery is past the attempt to upload the full text.
PastUpload ==
    result.pc \in {"notification", "publishing", "buttons_send", "returned"}

\* C20: for a result longer than 30000 characters, once the summary was
\* sent and the delivery is past the upload, either the full text was
\* uploaded or the apology was sent, whether the adapter lacks the upload
\* capability or the upload call failed.
C20_ApologyWheneverNotUploaded ==
    /\ CharLen(result.text) > GetResultMaxChars
    /\ ResultCallOk("summary")
    /\ PastUpload
    => ResultCallOk("upload") \/ ResultCallOk("apology")

\* The part of a sent summary between the fixed prefix and the fixed suffix.
SummaryMiddle(sent) ==
    TakeChars(DropChars(sent, CharLen(SummaryPrefix)),
              CharLen(sent) - CharLen(SummaryPrefix) - CharLen(SummarySuffix))

\* `sent` is the prefix, a leading part of `text` and the suffix.
IsSummaryOf(sent, text) ==
    /\ CharLen(sent) >= CharLen(SummaryPrefix) + CharLen(SummarySuffix)
    /\ TakeChars(sent, CharLen(SummaryPrefix)) = SummaryPrefix
    /\ DropChars(sent, CharLen(sent) - CharLen(SummarySuffix)) = SummarySuffix
    /\ SummaryMiddle(sent) = TakeChars(text, CharLen(SummaryMiddle(sent)))

\* C21: the first platform call of a result delivery carries the text
\* unchanged when the text has at most 30000 characters, and otherwise a
\* summary made of the fixed prefix, a leading part of the text and the
\* fixed suffix, of at most 30000 characters in all.
C21_ResultWithinBudget ==
    result.calls # <<>> =>
        LET first == result.calls[1]
        IN  IF CharLen(result.text) <= 30000
            THEN first.site = "result" /\ first.text = result.text
            ELSE /\ first.site = "summary"
                 /\ IsSummaryOf(first.text, result.text)
                 /\ CharLen(first.text) <= 30000

\* C21 witness: a text of 30018 characters was delivered as a summary of
\* exactly 30000 characters that keeps the text's first 29918.
C21_Witness ==
    /\ result.text = <<Run("r", 29918), Run("s", 100)>>
    /\ ResultCallOk("summary")
    /\ CharLen(result.calls[1].text) = 30000
    /\ SummaryMiddle(result.calls[1].text) = <<Run("r", 29918)>>

----------------------------------------------------------------------------
(* core/controller.py: emit_agent_message, all kinds of fragment together  *)

\* As the dispatch below, with the visibility setting consulted first.
RouteHiddenFirst(settings_key, canonical_type) ==
    IF IsMessageTypeHidden(settings_key, canonical_type) THEN "hidden"
    ELSE IF canonical_type \in {"notify", "result"} THEN canonical_type
    ELSE "log"

\* Lines 460, 467 and 500-512: the order in which emit_agent_message
\* dispatches a fragment: notify, result, then the visibility of a log kind.
Route(settings_key, canonical_type) ==
    IF canonical_type = "notify" THEN "notify"
    ELSE IF canonical_type = "result" THEN "result"
    ELSE IF IsMessageTypeHidden(settings_key, LogType(canonical_type))
         THEN "hidden"
         ELSE "log"

\* The fragments of every kind, short ones and one result too long to be
\* sent whole.
MixedInputs ==
    {[message_type |-> m, text |-> Hello] :
        m \in {"assistant", "toolcall", "Notify", "result"}}
    \cup {[message_type |-> "result", text |-> <<Run("r", 30001)>>]}

\* Lines 452-517: emit_agent_message is called with a fragment that is not
\* blank and runs to its first suspension point; one result is delivered
\* at a time.
MixedEmit(t) ==
    \E context \in Contexts, inp \in MixedInputs, platform \in Platforms :
        LET route == Route(SettingsKey(context),
                           CanonicalizeMessageType(inp.message_type))
            call == NewCall("emit", context, inp)
        IN  /\ MayStart(t)
            /\ Strip(inp.text) # <<>>
            /\ CASE route = "notify" ->
                      /\ tasks' = [tasks EXCEPT ![t] =
                                     [call EXCEPT !.pc = "notify_send",
                                                  !.arg = inp.text]]
                      /\ UNCHANGED <<consolidated_message_ids,
                                     consolidated_message_buffers,
                                     consolidated_message_locks, lock_holder,
                                     lock_waiters, calls, next_ts, others>>
                 [] route = "result" ->
                      /\ result.pc = "idle"
                      /\ result' = ResultCalled(context, inp.text, platform,
                                                platform = "slack")
                      /\ tasks' = [tasks EXCEPT ![t] =
                                     [call EXCEPT !.pc = "result"]]
                      /\ UNCHANGED <<consolidated_message_ids,
                                     consolidated_message_buffers,
                                     consolidated_message_locks, lock_holder,
                                     lock_waiters, calls, next_ts,
                                     diff_snapshots, working_diff, incremental,
                                     parser, fs, gist, publish, formatter, saved>>
                 [] route = "hidden" ->
                      /\ tasks' = [tasks EXCEPT ![t] =
                                     [call EXCEPT !.pc = "done"]]
                      /\ UNCHANGED <<consolidated_message_ids,
                                     consolidated_message_buffers,
                                     consolidated_message_locks, lock_holder,
                                     lock_waiters, calls, next_ts, others>>
                 [] route = "log" -> EmitLogWith(t, context, inp)

\* Line 498, or an exception of lines 470-495: the call that delivered the
\* result ends.
ResultEnds(t) ==
    /\ tasks[t].pc = "result"
    /\ result.pc \in {"returned", "raised"}
    /\ tasks' = [tasks EXCEPT ![t].pc =
                    IF result.pc = "returned" THEN "done" ELSE "raised"]
    /\ UNCHANGED <<consolidated_message_ids, consolidated_message_buffers,
                   consolidated_message_locks, lock_holder, lock_waiters,
                   calls, next_ts, others>>

MixedNext ==
    \/ \E t \in 1 .. NumTasks :
          \/ MixedEmit(t)
          \/ LockHandedOver(t)
          \/ NotifyReturns(t)
          \/ FinalEditReturns(t)
          \/ FinalSendReturns(t)
          \/ ResultEnds(t)
    \/ ResultBegin
    \/ ResultSend
    \/ ResultSummarySend
    \/ ResultUpload
    \/ ResultApologySend
    \/ NotificationBegin
    \/ GistBegin
    \/ GistMkdtemp
    \/ GistWriteFile
    \/ GistExec
    \/ GistCommunicate
    \/ GistFinally
    \/ NotificationPublished
    \/ NotificationSend

\* The controller after construction, one file changed in the working tree
\* and no snapshot stored.
MixedInit ==
    /\ Init
    /\ ParserIdle
    /\ GistIdle
    /\ ResultIdle
    /\ PublishIdle
    /\ FormatterIdle
    /\ SaveIdle
    /\ diff_snapshots = [k \in SessionKeys |-> NoSnapshot]
    /\ working_diff = GitDiffOutput(<<"v1", "", "">>)
    /\ incremental = NoIncremental

MixedSpec == MixedInit /\ [][MixedNext]_<<vars, others>>

----------------------------------------------------------------------------
(* Properties of the dispatch                                              *)

\* The kind of the fragment task t was called with.
KindOf(t) == CanonicalizeMessageType(tasks[t].message_type)

\* Task t is a call of emit_agent_message with a notify or result fragment
\* that is not blank.
DirectTask(t) ==
    /\ tasks[t].op = "emit"
    /\ Strip(tasks[t].text) # <<>>
    /\ KindOf(t) \in {"notify", "result"}

\* The consolidation state of every key and the locks.
Consolidation ==
    <<consolidated_message_ids, consolidated_message_buffers,
      consolidated_message_locks, lock_holder, lock_waiters>>

\* C22: a notify or result fragment is never dropped and never waits for a
\* lock, whatever the settings hide: its call is at its send_message or has
\* ended after making it, a notify with the text as given, a result with the
\* text or its summary; and no step of such a call, from its start to its
\* end, changes the buffer or the tracked id of any key, creates a lock,
\* takes one or queues for one.
C22_DirectFragmentsBypassConsolidation ==
    /\ [](\A t \in 1 .. NumTasks :
            DirectTask(t) =>
              /\ tasks[t].pc \in {"notify_send", "result", "done", "raised"}
              /\ (KindOf(t) = "notify" /\ tasks[t].pc \in {"done", "raised"})
                    => \E i \in 1 .. Len(calls) :
                          /\ calls[i].task = t
                          /\ calls[i].site = "notify"
                          /\ calls[i].op = "send"
                          /\ calls[i].text = tasks[t].text
              /\ (KindOf(t) = "result" /\ tasks[t].pc \in {"done", "raised"})
                    => /\ result.text = tasks[t].text
                       /\ result.calls # <<>>
                       /\ result.calls[1].site \in {"result", "summary"})
    /\ [][(\/ result' # result
           \/ \E t \in 1 .. NumTasks :
                 tasks'[t] # tasks[t]
                   /\ tasks'[t].op = "emit"
                   /\ CanonicalizeMessageType(tasks'[t].message_type)
                          \in {"notify", "result"})
          => Consolidation' = Consolidation]_<<vars, others>>

\* C22 witness: in the channel whose settings hide results, a result was
\* delivered while a log fragment for the same key is suspended in a
\* platform call, holding the key's lock.
C22_Witness ==
    \E t, u \in 1 .. NumTasks :
        /\ DirectTask(t)
        /\ KindOf(t) = "result"
        /\ IsMessageTypeHidden(tasks[t].key[1], "result")
        /\ tasks[t].pc = "done"
        /\ ResultDelivered
        /\ tasks[u].key = tasks[t].key
        /\ tasks[u].pc \in InLockedSection
        /\ lock_holder[tasks[u].key] = u

----------------------------------------------------------------------------
(* core/gist_service.py: create_full_diff_gist, create_incremental_diff_gist *)

\* Whether `git` could be started.
GitOutcomes == {"ran", "missing"}

\* What `git diff --stat` prints, trimmed: a line for each file that differs.
StatOf(diff_output) ==
    [i \in 1 .. Len(ParseDiffToFiles(diff_output)) |->
        <<ParseDiffToFiles(diff_output)[i].path, " | ">>]

\* Lines 53-86: get_git_diff returns the two outputs; when starting git
\* raises, the exception is caught and logged and two empty strings are
\* returned.
GetGitDiff(git) ==
    IF git = "ran"
    THEN [stat_output |-> StatOf(working_diff), diff_output |-> working_diff]
    ELSE [stat_output |-> <<>>, diff_output |-> EmptyText]

\* Lines 350 and 366: what is returned when there is nothing to publish.
NothingToPublish == <<None, <<>>, None>>

\* Lines 345-354 and 363-370: the diff is read; with nothing to publish the
\* call returns at once, else create_diff_gist is called per file, with the
\* whole diff or with the incremental one.
PublishBegin ==
    /\ publish.pc = "called"
    /\ \E git \in GitOutcomes :
        LET got == GetGitDiff(git)
            calculated == IncrementalDiff(publish.session_key, got.diff_output)
            nothing == IF publish.op = "full"
                       THEN IsBlankText(got.diff_output)
                       ELSE calculated.file_diffs = <<>>
        IN  /\ incremental' = IF publish.op = "full" THEN incremental
                              ELSE calculated
            /\ IF nothing
               THEN /\ publish' = [publish EXCEPT !.pc = "returned",
                                                  !.git = git,
                                                  !.returned = NothingToPublish]
                    /\ UNCHANGED gist
               ELSE /\ publish' = [publish EXCEPT
                                     !.pc = "publishing",
                                     !.git = git,
                                     !.stat_output = got.stat_output,
                                     !.file_diffs = calculated.file_diffs]
                    /\ gist' = GistCalled(
                                  IF publish.op = "full" THEN got.diff_output
                                  ELSE calculated.incremental_diff_content,
                                  TRUE)
    /\ UNCHANGED <<vars, diff_snapshots, working_diff, parser, fs, result,
                   formatter, saved>>

\* Lines 356 and 372: the link and the error of create_diff_gist are
\* returned, with the stat output or the changed files between them.
PublishEnds ==
    /\ publish.pc = "publishing"
    /\ gist.pc = "returned"
    /\ publish' = [publish EXCEPT
                     !.pc = "returned",
                     !.returned = <<gist.gist_url,
                                    IF publish.op = "full"
                                    THEN publish.stat_output
                                    ELSE publish.file_diffs,
                                    gist.error>>]
    /\ UNCHANGED <<vars, diff_snapshots, working_diff, incremental, parser,
                   fs, gist, result, formatter, saved>>

PublishNext ==
    \/ PublishBegin
    \/ GistBegin
    \/ GistMkdtemp
    \/ GistWriteFile
    \/ GistExec
    \/ GistCommunicate
    \/ GistFinally
    \/ PublishEnds

\* Either operation called for any session key, with any snapshots stored
\* and any working tree.
PublishInit ==
    /\ Init
    /\ ParserIdle
    /\ GistIdle
    /\ ResultIdle
    /\ FormatterIdle
    /\ SaveIdle
    /\ incremental = NoIncremental
    /\ working_diff \in ResultDiffs
    /\ diff_snapshots \in [SessionKeys -> ResultSnapshots]
    /\ \E op \in {"full", "incremental"}, session_key \in SessionKeys :
           publish = PublishCalled(op, session_key)

PublishSpec == PublishInit /\ [][PublishNext]_others

----------------------------------------------------------------------------
(* Properties of the publish operations                                    *)

\* C23: a publish operation that could not start the diff command returns
\* an error, and so something other than what it returns for a working tree
\* without changes.
C23_MissingDiffToolReported ==
    (publish.pc = "returned" /\ publish.git = "missing") =>
        /\ Truthy(publish.returned[3])
        /\ publish.returned # NothingToPublish

----------------------------------------------------------------------------
(* core/diff_parser.py: format_diff_as_rich_text_blocks                    *)

\* The longest list of files formatted.
MaxFiles == 3

\* The greatest max_blocks a formatter is called with.
MaxBlocks == 9

\* The two characters that line 117 exchanges.
Backtick == "backtick"

Apostrophe == "apostrophe"

\* A change of a hunk: its marker and the content of its line.
Change(change_type, content) == <<change_type, content>>

\* The files formatted: an edited file of one hunk with four changes around
\* a context line, one of them longer than a line shown and one with a
\* backtick character; a binary file; a new file without hunks; a file with one
\* changed line.
FormatFiles ==
    {[NewFileDiff([old_path |-> "A", new_path |-> "A"]) EXCEPT
        !.hunks = << [old_start |-> 1, old_count |-> 3, new_start |-> 1,
                      new_count |-> 3,
                      changes |-> << Change("-", <<Run("o", 3)>>),
                                     Change("-", <<Run(Backtick, 1), Run("o", 2)>>),
                                     Change("+", <<Run(" ", 2), Run("n", 70)>>),
                                     Change(" ", <<Run("c", 1)>>),
                                     Change("+", <<Run(" ", 1)>>) >>] >>],
     [NewFileDiff([old_path |-> "B", new_path |-> "B"]) EXCEPT
        !.is_binary = TRUE],
     [NewFileDiff([old_path |-> "C", new_path |-> "C"]) EXCEPT
        !.is_new_file = TRUE],
     [NewFileDiff([old_path |-> "D", new_path |-> "D"]) EXCEPT
        !.hunks = << [old_start |-> 1, old_count |-> 0, new_start |-> 1,
                      new_count |-> 1,
                      changes |-> << Change("+", <<Run("n", 1)>>) >>] >>]}

FormatInputs == UNION {[1 .. n -> FormatFiles] : n \in 0 .. MaxFiles}

\* Lines 115-121: _truncate_line.
TruncateLine(line, max_length) ==
    LET stripped == Strip(line)
        replaced == [i \in 1 .. Len(stripped) |->
                        IF stripped[i][1] = Backtick
                        THEN Run(Apostrophe, stripped[i][2]) ELSE stripped[i]]
    IN  IF replaced = <<>> THEN <<Run(" ", 1)>>
        ELSE IF CharLen(replaced) > max_length
        THEN Cat(TakeChars(replaced, max_length - 3), <<Run(".", 3)>>)
        ELSE replaced

\* A block of the output.
Block(type, text, elements) ==
    [type |-> type, text |-> text, elements |-> elements]

\* Lines 390-431: _add_rich_text_changes appends, pair by pair, the deleted
\* and the added line of each pair until max_changes pairs were shown, and
\* returns the number shown.
AddRichTextChanges(elements, deletions, additions, changes_shown, max_changes) ==
    LET max_pairs == IF Len(deletions) >= Len(additions)
                     THEN Len(deletions) ELSE Len(additions)
        room == IF max_changes > changes_shown
                THEN max_changes - changes_shown ELSE 0
        pairs == Min(max_pairs, room)
        Pair(j) ==
            (IF j <= Len(deletions)
             THEN << <<"red", TruncateLine(deletions[j], 65)>> >> ELSE <<>>)
            \o (IF j <= Len(additions)
                THEN << <<"green", TruncateLine(additions[j], 65)>> >>
                ELSE <<>>)
        Added[j \in 0 .. pairs] ==
            IF j = 0 THEN <<>> ELSE Added[j - 1] \o Pair(j)
    IN  [elements |-> elements \o Added[pairs],
         changes_shown |-> changes_shown + pairs]

\* Lines 330-365: the changes of one hunk are gathered into runs of
\* deletions followed by additions, each run shown when the next begins.
RichTextOfHunk(hunk, elements, changes_shown, max_changes) ==
    LET Shown(p) ==
            LET r == AddRichTextChanges(p.elements, p.deletions, p.additions,
                                        p.changes_shown, max_changes)
            IN  [elements |-> r.elements, changes_shown |-> r.changes_shown,
                 deletions |-> <<>>, additions |-> <<>>]
        After(p, change_type, content) ==
            IF change_type = "-"
            THEN IF p.additions # <<>>
                 THEN [Shown(p) EXCEPT !.deletions = <<content>>]
                 ELSE [p EXCEPT !.deletions = Append(@, content)]
            ELSE IF change_type = "+"
            THEN [p EXCEPT !.additions = Append(@, content)]
            ELSE IF p.deletions # <<>> \/ p.additions # <<>>
            THEN Shown(p)
            ELSE p
        \* The state after k changes, that after k - 1 evaluated once.
        Scan[k \in 0 .. Len(hunk.changes)] ==
            IF k = 0
            THEN [elements |-> elements, changes_shown |-> changes_shown,
                  deletions |-> <<>>, additions |-> <<>>]
            ELSE CHOOSE q \in {After(p, hunk.changes[k][1], hunk.changes[k][2]) :
                                  p \in {Scan[k - 1]}} : TRUE
        last == Scan[Len(hunk.changes)]
    IN  CHOOSE q \in {IF p.deletions # <<>> \/ p.additions # <<>>
                       THEN Shown(p) ELSE p : p \in {last}} : TRUE

\* Lines 323-328: the hunks of a file, until max_changes_per_file were shown.
RichTextOfFile(file_diff, max_changes) ==
    LET Hunks[h \in 0 .. Len(file_diff.hunks)] ==
            IF h = 0 THEN [elements |-> <<>>, changes_shown |-> 0]
            ELSE IF Hunks[h - 1].changes_shown >= max_changes
            THEN Hunks[h - 1]
            ELSE LET r == RichTextOfHunk(file_diff.hunks[h],
                                         Hunks[h - 1].elements,
                                         Hunks[h - 1].changes_shown,
                                         max_changes)
                 IN  [elements |-> r.elements,
                      changes_shown |-> r.changes_shown]
    IN  Hunks[Len(file_diff.hunks)].elements

\* Lines 370-372: the changed lines of a file.
TotalChanges(file_diff) ==
    LET Count[h \in 0 .. Len(file_diff.hunks)] ==
            IF h = 0 THEN 0
            ELSE Count[h - 1]
                 + Cardinality({k \in 1 .. Len(file_diff.hunks[h].changes) :
                                   file_diff.hunks[h].changes[k][1] # " "})
    IN  Count[Len(file_diff.hunks)]

\* Lines 293-385: the blocks of one file: its heading, then one note for a
\* binary file, else its changes, if any were shown, and the note about
\* the changes beyond max_changes_per_file.
FileBlocks(file_diff, max_changes) ==
    LET icon == IF file_diff.is_new_file THEN "new"
                ELSE IF file_diff.is_deleted_file THEN "deleted"
                ELSE IF file_diff.is_binary THEN "binary"
                ELSE "modified"
        heading == Block("section", <<icon, file_diff.new_path>>, <<>>)
        elements == RichTextOfFile(file_diff, max_changes)
        total_changes == TotalChanges(file_diff)
    IN  IF file_diff.is_binary
        THEN <<heading, Block("context", <<"binary changed">>, <<>>)>>
        ELSE <<heading>>
             \o (IF elements # <<>>
                 THEN <<Block("rich_text", <<>>, elements)>> ELSE <<>>)
             \o (IF total_changes > max_changes
                 THEN <<Block("context",
                              <<"changes not shown", total_changes - max_changes>>,
                              <<>>)>>
                 ELSE <<>>)

\* As line 275, stopping only when the blocks are used up.
StopsWhenFull(files_shown, blocks, max_files, max_blocks) ==
    files_shown >= max_files \/ Len(blocks) >= max_blocks

\* Line 275: no further file is begun.
StopsAt(files_shown, blocks, max_files, max_blocks) ==
    files_shown >= max_files \/ Len(blocks) >= max_blocks - 5

\* Lines 263-271: without files the one block saying so is returned.
FormatBegin ==
    /\ formatter.pc = "called"
    /\ formatter' =
         IF formatter.files = <<>>
         THEN [formatter EXCEPT
                 !.pc = "returned",
                 !.blocks = <<Block("section", <<"no changes">>, <<>>)>>]
         ELSE [formatter EXCEPT !.pc = "files"]
    /\ UNCHANGED <<vars, diff_snapshots, working_diff, incremental, parser,
                   fs, gist, result, publish, saved>>

\* Lines 274-385, one round of the loop: the loop ends with a note of the
\* files that remain, or the next file's blocks are appended.
FormatFile ==
    LET f == formatter
        file_diff == f.files[f.files_shown + 1]
        remaining == Len(f.files) - f.files_shown
    IN  /\ f.pc = "files"
        /\ f.files_shown < Len(f.files)
        /\ formatter' =
             IF StopsAt(f.files_shown, f.blocks, f.max_files, f.max_blocks)
             THEN [f EXCEPT
                     !.pc = "returned",
                     !.blocks =
                        IF remaining > 0
                        THEN Append(@, Block("context",
                                             <<"files not shown", remaining>>,
                                             <<>>))
                        ELSE @]
             ELSE [f EXCEPT
                     !.files_shown = @ + 1,
                     !.blocks = @ \o FileBlocks(file_diff,
                                                f.max_changes_per_file)]
        /\ UNCHANGED <<vars, diff_snapshots, working_diff, incremental, parser,
                       fs, gist, result, publish, saved>>

\* Line 387: the loop has run through all files.
FormatEnd ==
    /\ formatter.pc = "files"
    /\ formatter.files_shown = Len(formatter.files)
    /\ formatter' = [formatter EXCEPT !.pc = "returned"]
    /\ UNCHANGED <<vars, diff_snapshots, working_diff, incremental, parser,
                   fs, gist, result, publish, saved>>

FormatNext ==
    \/ FormatBegin
    \/ FormatFile
    \/ FormatEnd

\* The formatter called with any files and any limits, max_blocks at least 1.
FormatInit ==
    /\ Init
    /\ GistServiceInit
    /\ ParserIdle
    /\ GistIdle
    /\ ResultIdle
    /\ PublishIdle
    /\ SaveIdle
    /\ \E files \in FormatInputs, max_changes_per_file \in {1, 8},
          max_files \in 0 .. MaxFiles, max_blocks \in 1 .. MaxBlocks :
           formatter = FormatterCalled(files, max_changes_per_file,
                                       max_files, max_blocks)

FormatSpec == FormatInit /\ [][FormatNext]_others

----------------------------------------------------------------------------
(* Properties of format_diff_as_rich_text_blocks                           *)

\* The headings of files among the blocks returned.
FileHeadings ==
    {i \in 1 .. Len(formatter.blocks) :
        /\ formatter.blocks[i].type = "section"
        /\ formatter.blocks[i].text # <<"no changes">>}

\* C24: the blocks returned are at most max_blocks, and when fewer files
\* have a heading than were given, the last block is a context block
\* giving the number of the files without one.
C24_AtMostMaxBlocks ==
    formatter.pc = "returned" =>
        /\ Len(formatter.blocks) <= formatter.max_blocks
        /\ Cardinality(FileHeadings) < Len(formatter.files) =>
              formatter.blocks[Len(formatter.blocks)] =
                  Block("context",
                        <<"files not shown",
                          Len(formatter.files) - Cardinality(FileHeadings)>>,
                        <<>>)

\* C24 witness: the limit of blocks, not max_files, ended the loop after
\* two files of three, and the note of the one file left is the last block.
C24_Witness ==
    /\ formatter.pc = "returned"
    /\ Len(formatter.files) = 3
    /\ formatter.max_files = 3
    /\ Cardinality(FileHeadings) = 2
    /\ formatter.blocks[Len(formatter.blocks)].text = <<"files not shown", 1>>
    /\ Len(formatter.blocks) <= formatter.max_blocks

----------------------------------------------------------------------------
(* core/controller.py: the message of _send_diff_gist_notification         *)

\* The longest list of changed files a round is published with.
MaxChanged == 6

\* The i-th changed file of a round, in one of its three states.
ChangedFile(i, status) ==
    [path |-> <<"f", i>>,
     insertions |-> IF status = "deleted" THEN 0 ELSE i,
     deletions |-> IF status = "new" THEN 0 ELSE 2,
     is_new |-> status = "new",
     is_deleted |-> status = "deleted",
     is_binary |-> FALSE,
     diff_content |-> EmptyText]

ChangedLists ==
    UNION {{[i \in 1 .. n |-> ChangedFile(i, status[i])] :
               status \in [1 .. n -> {"new", "deleted", "modified"}]} :
           n \in 1 .. MaxChanged}

\* What create_diff_gist returns: the link the tool printed, or its error.
PublishedGists ==
    {[GistCalled(EmptyText, TRUE) EXCEPT
        !.pc = "returned", !.tool = "exit 0", !.output = stdout,
        !.gist_url = StripOutput(stdout)] : stdout \in Stdouts}
    \cup {[GistCalled(EmptyText, TRUE) EXCEPT
             !.pc = "returned", !.tool = "exit 1", !.output = stderr,
             !.error = StripOutput(stderr)] : stderr \in Stderrs}

\* Line 313: create_incremental_diff_gist of a delivered result has just
\* published the changed files of the round, any number of them.
NotifyInit ==
    /\ Init
    /\ ParserIdle
    /\ PublishIdle
    /\ FormatterIdle
    /\ SaveIdle
    /\ fs = {}
    /\ working_diff = EmptyText
    /\ diff_snapshots = [k \in SessionKeys |-> NoSnapshot]
    /\ \E context \in Contexts, file_diffs \in ChangedLists,
          published \in PublishedGists :
          /\ gist = published
          /\ incremental = [NoIncremental EXCEPT
                              !.called = TRUE,
                              !.session_key = SessionKey(context),
                              !.file_diffs = file_diffs]
          /\ result = [ResultCalled(context, Hello, "slack", TRUE) EXCEPT
                          !.pc = "publishing",
                          !.calls = << [site |-> "result", text |-> Hello,
                                        ok |-> TRUE] >>,
                          !.file_diffs = file_diffs]

NotifyNext ==
    \/ NotificationPublished
    \/ NotificationSend

NotifySpec == NotifyInit /\ [][NotifyNext]_others

----------------------------------------------------------------------------
(* Properties of the follow-up notification                                *)

\* The follow-up notification of the result was handed to the platform.
NotificationHanded ==
    /\ Len(result.calls) = 2
    /\ result.calls[2].site = "buttons"

\* C25: the notification handed to the platform lists the first min(n, 5)
\* of the n changed files, each with its path, its insertions and
\* deletions and the icon of its status, new before deleted before
\* modified, and its note of further files gives n - 5 when n > 5 and is
\* absent otherwise.
C25_NotificationListsFiveFiles ==
    NotificationHanded =>
        LET message == result.calls[2].text
            file_diffs == result.file_diffs
            n == Len(file_diffs)
        IN  /\ Len(message.file_lines) = IF n < 5 THEN n ELSE 5
            /\ \A i \in 1 .. Len(message.file_lines) :
                 /\ message.file_lines[i].path = file_diffs[i].path
                 /\ message.file_lines[i].stats =
                       <<file_diffs[i].insertions, file_diffs[i].deletions>>
                 /\ message.file_lines[i].icon = "new" <=> file_diffs[i].is_new
                 /\ message.file_lines[i].icon = "deleted" <=>
                       ~file_diffs[i].is_new /\ file_diffs[i].is_deleted
                 /\ message.file_lines[i].icon = "modified" <=>
                       ~file_diffs[i].is_new /\ ~file_diffs[i].is_deleted
            /\ n > 5 => message.more = n - 5
            /\ n <= 5 => message.more = 0

\* C25 witness: six files changed, a new, a deleted and a modified one
\* among the first five; five are listed and the note gives one more.
C25_Witness ==
    /\ NotificationHanded
    /\ Len(result.file_diffs) = 6
    /\ result.file_diffs[1].is_new
    /\ result.file_diffs[2].is_deleted
    /\ ~result.file_diffs[3].is_new /\ ~result.file_diffs[3].is_deleted
    /\ Len(result.calls[2].text.file_lines) = 5
    /\ result.calls[2].text.more = 1

----------------------------------------------------------------------------
(* Properties of the proactive split and of the final edit and send        *)

\* Call t enters the locked section in this step.
Enters(t) ==
    /\ tasks[t].pc \notin InLockedSection
    /\ tasks'[t].pc \in InLockedSection

\* Call t enters the locked section, a message is tracked for its key and
\* the key's buffer joined with the new fragment exceeds 3600 bytes.
EntersOverThreshold(t) ==
    /\ Enters(t)
    /\ consolidated_message_ids[tasks'[t].key] # NoId
    /\ GetTextByteLength(
           JoinChunk(consolidated_message_buffers[tasks'[t].key],
                     Strip(tasks'[t].text))) > 3600

\* A platform call of call t, suspended at `pc`, completes in this step.
CallCompletes(t, pc) ==
    /\ tasks[t].pc = pc
    /\ Len(calls') = Len(calls) + 1
    /\ Last(calls').task = t

FailedFinalEdits ==
    {i \in 1 .. Len(calls) : calls[i].site = "final_edit" /\ ~calls[i].ok}

\* Call t is suspended in an edit of a message.
EditPending(t) ==
    /\ tasks[t].pc \in {"finalize_edit", "split_call", "final_edit"}
    /\ tasks[t].existing_message_id # NoId

\* C27: when the final edit of the tracked message returns false or
\* raises, no id is tracked any more and the stored buffer, whole, is
\* passed to send_message; a final send that succeeds makes the id of the
\* new message the tracked id; and the id of a final edit that failed is
\* never again tracked nor the target of an edit, completed or pending.
C27_FailedEditFallsBackToSend ==
    /\ [][\A t \in DOMAIN tasks :
            /\ (CallCompletes(t, "final_edit") /\ ~Last(calls').ok) =>
                  /\ consolidated_message_ids'[tasks[t].key] = NoId
                  /\ tasks'[t].pc = "final_send"
                  /\ tasks'[t].arg = consolidated_message_buffers'[tasks[t].key]
                  /\ UNCHANGED consolidated_message_buffers
            /\ CallCompletes(t, "final_send") =>
                  /\ Last(calls').op = "send"
                  /\ Last(calls').text = consolidated_message_buffers[tasks[t].key]
                  /\ Last(calls').ok =>
                        /\ Last(calls').id # NoId
                        /\ consolidated_message_ids'[tasks[t].key]
                               = Last(calls').id]_vars
    /\ [](\A i \in FailedFinalEdits :
            /\ \A j \in i + 1 .. Len(calls) :
                   calls[j].op = "edit" => calls[j].id # calls[i].id
            /\ \A k \in Keys : consolidated_message_ids[k] # calls[i].id
            /\ \A t \in DOMAIN tasks :
                   EditPending(t) => tasks[t].existing_message_id # calls[i].id)

\* C27 witness: a final edit failed, the buffer of two fragments went out
\* whole as a new message, and the next fragment led to an edit of that
\* new message.
C27_Witness ==
    \E i \in FailedFinalEdits :
        /\ i + 2 <= Len(calls)
        /\ calls[i + 1].site = "final_send" /\ calls[i + 1].ok
        /\ calls[i + 1].task = calls[i].task
        /\ calls[i + 1].text = calls[i].text
        /\ calls[i + 1].text = TwoJoined
        /\ calls[i + 2].op = "edit"
        /\ calls[i + 2].id = calls[i + 1].id
        /\ calls[i + 2].id # calls[i].id

\* Some call for key k is suspended in a platform call.
SuspendedFor(k) ==
    \E t \in DOMAIN tasks :
        tasks[t].key = k /\ tasks[t].pc \in AwaitingPlatform

\* C28: in every state, those with a call suspended in a platform call
\* included, the buffer of a key with a tracked message id is at most 4000
\* UTF-8 bytes long.
C28_TrackedBufferWithinBudget ==
    \A k \in Keys :
        consolidated_message_ids[k] # NoId =>
            GetTextByteLength(consolidated_message_buffers[k]) <= 4000

\* C28 witness: a key tracks a message and its buffer was cut to the limit
\* while a later fragment of the key is suspended in a platform call.
C28_Witness ==
    \E k \in Keys :
        /\ consolidated_message_ids[k] # NoId
        /\ GetTextByteLength(consolidated_message_buffers[k]) > 3990
        /\ Last(consolidated_message_buffers[k])[1] = "ELLIPSIS"
        /\ SuspendedFor(k)

\* C29: the lock stored for a key is the first one made for it, and a
\* stored lock is neither removed nor replaced by any step, a completed
\* clear_consolidated_message_id, which empties buffer and id, included.
C29_OneLockPerKey ==
    /\ [](\A k \in Keys : consolidated_message_locks[k] \in {NoLock, 1})
    /\ [][\A k \in Keys :
            consolidated_message_locks[k] # NoLock =>
                consolidated_message_locks'[k] = consolidated_message_locks[k]]_vars

\* C29 witness: a fragment made the lock of its key and was delivered, and
\* a clear of that key, begun during the delivery or after it, completed;
\* the key has its lock still, and neither buffer nor id.
C29_Witness ==
    \E t, u \in DOMAIN tasks :
        /\ t < u
        /\ tasks[t].op = "emit" /\ tasks[u].op = "clear"
        /\ tasks[t].key = tasks[u].key
        /\ CallsOf(t) # <<>>
        /\ tasks[u].pc = "done"
        /\ tasks[t].pc = "done"
        /\ consolidated_message_locks[tasks[t].key] = 1
        /\ consolidated_message_ids[tasks[t].key] = NoId
        /\ consolidated_message_buffers[tasks[t].key] = <<>>

----------------------------------------------------------------------------
(* One conversation round with clear_consolidated_message_id               *)

\* The fragments of the round, and clears for either conversation, in any
\* order and overlapping.
ClearRoundNext ==
    \E t \in 1 .. RoundLen :
        \/ RoundEmitLog(t)
        \/ ClearCall(t)
        \/ LockHandedOver(t)
        \/ FinalizeEditReturns(t)
        \/ SplitCallReturns(t)
        \/ FinalEditReturns(t)
        \/ FinalSendReturns(t)

ClearRoundInit == RoundInit /\ OthersIdle

ClearRoundSpec == ClearRoundInit /\ [][ClearRoundNext]_vars

\* Call t is a log fragment that has entered the locked section of its key.
EnteredFragment(t) == tasks[t].op = "emit" /\ tasks[t].chunk # <<>>

\* Calls are numbered as they are made and the lock of a key is handed on
\* in that order: u is a clear and t the first log fragment to enter the
\* locked section of the same key after u completed.
NextAfterClear(u, t) ==
    /\ u < t
    /\ tasks[u].op = "clear"
    /\ tasks[u].pc = "done"
    /\ EnteredFragment(t)
    /\ tasks[t].key = tasks[u].key
    /\ \A v \in DOMAIN tasks :
           (u < v /\ v < t /\ tasks[v].key = tasks[u].key)
               => tasks[v].op = "clear"

\* C30: the first log fragment of a key after a clear of that key found no
\* buffer and no tracked id; each of its platform calls, completed or
\* pending, is a send, none an edit; a fragment of at most 4000 bytes is
\* sent as it is, stripped, and a longer one starts with a part of itself
\* followed by the continuation notice.
C30_FreshMessageAfterClear ==
    \A u, t \in DOMAIN tasks :
        NextAfterClear(u, t) =>
            /\ tasks[t].existing = <<>>
            /\ tasks[t].existing_message_id = NoId
            /\ \A i \in 1 .. Len(CallsOf(t)) : CallsOf(t)[i].op = "send"
            /\ tasks[t].pc \in InLockedSection =>
                  tasks[t].pc \in {"split_call", "final_send"}
            /\ LET texts == [i \in 1 .. Len(CallsOf(t)) |-> CallsOf(t)[i].text]
                            \o (IF tasks[t].pc \in InLockedSection
                                THEN <<tasks[t].arg>> ELSE <<>>)
               IN  IF GetTextByteLength(Strip(tasks[t].text)) <= 4000
                   THEN \A i \in 1 .. Len(texts) :
                            texts[i] = Strip(tasks[t].text)
                   ELSE texts # <<>> =>
                            PrefixThenMarker(texts[1], Strip(tasks[t].text),
                                             ContinuationNotice)

\* C30 witness: a fragment was sent and its message tracked, the key was
\* cleared, and the same text arriving again went out alone as a new
\* message, which is the tracked one.
C30_Witness ==
    \E s, u, t \in DOMAIN tasks :
        /\ s < u
        /\ NextAfterClear(u, t)
        /\ EnteredFragment(s) /\ tasks[s].key = tasks[u].key
        /\ tasks[s].pc = "done" /\ tasks[t].pc = "done"
        /\ Len(CallsOf(s)) = 1 /\ CallsOf(s)[1].ok
        /\ Len(CallsOf(t)) = 1 /\ CallsOf(t)[1].ok
        /\ CallsOf(t)[1].op = "send"
        /\ CallsOf(t)[1].text = Strip(tasks[t].text)
        /\ CallsOf(t)[1].id # CallsOf(s)[1].id
        /\ consolidated_message_ids[tasks[t].key] = CallsOf(t)[1].id

----------------------------------------------------------------------------
(* core/gist_service.py: save_diff_snapshot and its return value           *)

\* Number of calls of save_diff_snapshot that return.
MaxSaves == 2

\* Lines 102-129: save_diff_snapshot stores the snapshot made of the diff
\* of the working tree, "" when git failed, and returns it.
SaveCall(session_key) ==
    /\ saved.count < MaxSaves
    /\ \E d \in GitDiffResults :
           /\ diff_snapshots' = StoreSnapshot(session_key, Captured(d))
           /\ saved' = [count |-> saved.count + 1,
                        session_key |-> session_key,
                        returned |-> Captured(d)]
    /\ UNCHANGED <<vars, working_diff, incremental, parser, fs, gist, result,
                   publish, formatter>>

SnapshotNext ==
    \/ WorkingTreeChanges
    \/ \E session_key \in SessionKeys :
        \/ SaveCall(session_key)
        \/ ClearDiffSnapshot(session_key)

SnapshotInit == Init /\ OthersIdle

SnapshotSpec == SnapshotInit /\ [][SnapshotNext]_others

----------------------------------------------------------------------------
(* Properties of save_diff_snapshot                                        *)

\* A call of save_diff_snapshot returns in this step.
SaveReturns == saved'.count = saved.count + 1

\* C31: when save_diff_snapshot returns, the entry of its session key is
\* the snapshot it has just made of the working tree's diff (of "" when git
\* failed), whatever the key held before, and the entry of every other key
\* is as it was.
C31_SaveReplacesOwnKeyOnly ==
    [][SaveReturns =>
          /\ diff_snapshots'[saved'.session_key] = saved'.returned
          /\ saved'.returned.stored
          /\ saved'.returned.raw_diff \in {working_diff, EmptyText}
          /\ \A k \in SessionKeys :
                 k # saved'.session_key =>
                     diff_snapshots'[k] = diff_snapshots[k]]_others

\* C31 witness: two saves have returned, the second for a key other than
\* the first one's; each key holds its own snapshot, the two differing.
C31_Witness ==
    /\ saved.count = 2
    /\ diff_snapshots[saved.session_key] = saved.returned
    /\ saved.returned.raw_diff # EmptyText
    /\ \E k \in SessionKeys :
           /\ k # saved.session_key
           /\ diff_snapshots[k].stored
           /\ diff_snapshots[k].raw_diff # EmptyText
           /\ diff_snapshots[k] # saved.returned

----------------------------------------------------------------------------
(* core/diff_parser.py: parse_unified_diff on diffs with hunks             *)

\* The longest body of the first hunk, in lines.
MaxBody == 2

\* The lines a hunk's body is made of: an added, a removed and a context
\* line, lines that start with "+++" and "---", a line that marks the file
\* as new and an empty line.
BodyAlphabet ==
    { <<"+", "x">>, <<"-", "y">>, <<" ", "">>,
      <<"+++", " b/A">>, <<"---", " a/A">>, <<"new file mode">>, <<>> }

Bodies(n) == UNION {[1 .. m -> BodyAlphabet] : m \in 0 .. n}

\* Diffs as git prints them: the header of file A with its "---" and "+++"
\* lines, a hunk, and then nothing more, a second hunk of the same file, or
\* a hunk of a second file; before the first header nothing, a stray added
\* line or a stray hunk header.
HunkInputs ==
    {stray \o << HeaderLine("A", "A"), <<"---", " a/A">>, <<"+++", " b/A">>,
                 HunkLine("1", "0", "1", "2") >> \o first \o rest :
        stray \in {<<>>, << <<"+", "x">> >>, << HunkLine("5", "", "5", "") >>},
        first \in Bodies(MaxBody),
        rest \in {<<>>}
             \cup {<< HunkLine("5", "", "5", "") >> \o second :
                      second \in Bodies(1)}
             \cup {<< HeaderLine("B", "C"), HunkLine("5", "", "5", "") >>
                      \o second : second \in Bodies(1)}}

\* parse_unified_diff called with a diff that has hunks.
HunkInit ==
    /\ Init
    /\ GistServiceInit
    /\ GistIdle
    /\ ResultIdle
    /\ PublishIdle
    /\ FormatterIdle
    /\ SaveIdle
    /\ \E diff_output \in HunkInputs : parser = ParserCalled(diff_output)

HunkSpec == HunkInit /\ [][ParseNext]_others

----------------------------------------------------------------------------
(* Properties of the hunks parse_unified_diff returns                      *)

\* The positions of the hunk headers among `lines`, in order.
HunkPositions(lines) ==
    LET F[i \in 0 .. Len(lines)] ==
            IF i = 0 THEN <<>>
            ELSE IF lines[i] # <<>> /\ lines[i][1] = "@@"
                 THEN Append(F[i - 1], i) ELSE F[i - 1]
    IN  F[Len(lines)]

\* The lines of the h-th hunk among `lines`: those after its header, up to
\* the next hunk header or the end.
LinesOfHunk(lines, h) ==
    LET pos == HunkPositions(lines)
        last == IF h < Len(pos) THEN pos[h + 1] - 1 ELSE Len(lines)
    IN  SubSeq(lines, pos[h] + 1, last)

\* A line that starts with "+", "-" or a space, and not with "+++" or "---".
IsChangeLine(line) ==
    /\ StartsWith(line, "+") \/ StartsWith(line, "-") \/ StartsWith(line, " ")
    /\ ~StartsWith(line, "+++")
    /\ ~StartsWith(line, "---")

\* The change lines among `lines`, in order, each as its marker and the
\* text after it.
ChangesAmong(lines) ==
    LET chosen == SelectSeq(lines, IsChangeLine)
    IN  [i \in 1 .. Len(chosen) |-> <<chosen[i][1], chosen[i][2]>>]

\* C32: the k-th FileDiff returned has one hunk per hunk header between the
\* k-th "diff --git" line and the next, in order, each with the start
\* written on its header, and the changes of a hunk are the lines between
\* its header and the next header that start with "+", "-" or a space and
\* not with "+++" or "---", in input order, each with its marker.
C32_ChangesAreTheChangeLines ==
    Returned =>
        LET text == parser.diff_output IN
        /\ Len(parser.result) = Len(HeaderPositions(text))
        /\ \A k \in 1 .. Len(parser.result) :
             LET lines == LinesOfHeader(text, k)
                 hunks == parser.result[k].hunks
             IN  /\ Len(hunks) = Len(HunkPositions(lines))
                 /\ \A h \in 1 .. Len(hunks) :
                      /\ hunks[h].old_start
                             = ToInt(lines[HunkPositions(lines)[h]][2])
                      /\ hunks[h].changes = ChangesAmong(LinesOfHunk(lines, h))

\* C32 witness: two files with a hunk each were returned; the first hunk
\* has a removed and an added line, in that order, the second a context
\* line, and a line "+++" written inside the second hunk is in no hunk.
C32_Witness ==
    /\ Returned
    /\ Len(parser.result) = 2
    /\ parser.result[1].hunks[1].changes = << <<"-", "y">>, <<"+", "x">> >>
    /\ Len(parser.result[2].hunks) = 1
    /\ parser.result[2].hunks[1].changes = <<>>
    /\ Last(parser.diff_output) = <<"+++", " b/A">>

----------------------------------------------------------------------------
(* Properties of the consolidated buffer and the message it is shown in    *)

\* The successful sends and edits that went to message `id`, in order.
DeliveredTo(id) == SelectSeq(calls, LAMBDA c : c.ok /\ c.id = id)

\* C33: when no fragment for a key is being processed and the key tracks a
\* message id, the text of the most recent successful send or edit that went
\* to that message is the key's stored buffer.
C33_TrackedMessageShowsBuffer ==
    \A k \in Keys :
        (Quiescent(k) /\ consolidated_message_ids[k] # NoId) =>
            /\ DeliveredTo(consolidated_message_ids[k]) # <<>>
            /\ Last(DeliveredTo(consolidated_message_ids[k])).text
                   = consolidated_message_buffers[k]

\* C33 witness: a key at rest tracks a message that was sent with one text
\* and later edited successfully to another.
C33_Witness ==
    \E k \in Keys :
        LET delivered == DeliveredTo(consolidated_message_ids[k]) IN
        /\ Quiescent(k)
        /\ consolidated_message_ids[k] # NoId
        /\ Len(delivered) >= 2
        /\ delivered[1].op = "send"
        /\ Last(delivered).op = "edit"
        /\ Last(delivered).text # delivered[1].text

----------------------------------------------------------------------------
(* One conversation round of fragments that can be told apart              *)

\* The t-th call's fragment is made of the t-th letter; none of the letters
\* occurs in the separator or in the continuation notice.
FragmentLetters == <<"f", "g", "j", "k", "q", "x", "y", "z">>

\* A fragment that fits a message several times, and one that fits none.
FragmentOf(t) ==
    {[message_type |-> "assistant", text |-> <<Run(FragmentLetters[t], n)>>] :
        n \in {1000, 4100}}

OrderEmitLog(t) == \E inp \in FragmentOf(t) : EmitLogWith(t, Ctx1, inp)

OrderNext ==
    \E t \in 1 .. RoundLen :
        \/ OrderEmitLog(t)
        \/ LockHandedOver(t)
        \/ FinalizeEditReturns(t)
        \/ SplitCallReturns(t)
        \/ FinalEditReturns(t)
        \/ FinalSendReturns(t)

OrderInit == RoundInit /\ OthersIdle

OrderSpec == OrderInit /\ [][OrderNext]_vars

\* The calls whose fragments occur in `text`, in the order of occurrence.
FragmentsIn(text) ==
    LET IsLetter(ch) == \E t \in DOMAIN FragmentLetters : FragmentLetters[t] = ch
        runs == SelectSeq(text, LAMBDA r : IsLetter(r[1]))
    IN  [i \in 1 .. Len(runs) |->
            CHOOSE t \in DOMAIN FragmentLetters : FragmentLetters[t] = runs[i][1]]

Increasing(q) == \A i, j \in 1 .. Len(q) : i < j => q[i] < q[j]

\* C34: the calls enter the locked section in the order in which they were
\* made, one after the other; the platform calls are made in that order; in
\* every text sent or edited, and in the stored buffer, the fragments stand
\* in call order and none is of a later call than the one that passes the
\* text; the text that closes the old message holds earlier fragments only,
\* and as long as no send or edit has failed the text of a call's last send
\* or edit, like the buffer the call leaves behind, ends with that call's
\* fragment.
C34_ConsolidatedInCallOrder ==
    LET k == ConsolidatedMessageKey(Ctx1) IN
    /\ \A t \in DOMAIN tasks :
           tasks[t].pc \in InLockedSection =>
               /\ \A u \in DOMAIN tasks : u < t => tasks[u].pc = "done"
               /\ \A u \in DOMAIN tasks :
                      u > t => tasks[u].pc \in {"idle", "wait_lock"}
    /\ \A i, j \in 1 .. Len(calls) : i < j => calls[i].task <= calls[j].task
    /\ \A i \in 1 .. Len(calls) :
           LET fragments == FragmentsIn(calls[i].text) IN
           /\ Increasing(fragments)
           /\ fragments # <<>>
           /\ Last(fragments) <= calls[i].task
           /\ calls[i].site = "finalize" => Last(fragments) < calls[i].task
           /\ (calls[i].site \in {"final_edit", "final_send"}
                  /\ \A j \in 1 .. i - 1 : calls[j].ok)
                  => Last(fragments) = calls[i].task
    /\ Increasing(FragmentsIn(consolidated_message_buffers[k]))
    /\ \A t \in DOMAIN tasks :
           (/\ tasks[t].pc = "done"
            /\ \A u \in DOMAIN tasks : u > t => tasks[u].pc \in {"idle", "wait_lock"}
            /\ \A i \in 1 .. Len(calls) : calls[i].ok)
               => Last(FragmentsIn(consolidated_message_buffers[k])) = t

\* C34 witness: the first call has finished, the second is suspended in the
\* platform call that carries the first two fragments in call order, and
\* the third, which arrived meanwhile, waits for the lock.
C34_Witness ==
    /\ tasks[1].pc = "done"
    /\ FragmentsIn(calls[1].text) = <<1>>
    /\ tasks[2].pc \in InLockedSection
    /\ FragmentsIn(tasks[2].arg) = <<1, 2>>
    /\ tasks[3].pc = "wait_lock"

----------------------------------------------------------------------------
(* A result is delivered while snapshots are saved                         *)

\* The delivery of a short result and its notification; between any two of
\* its steps, each of which ends at an await, save_diff_snapshot may run for
\* any session key.
RaceNext ==
    \/ ResultBegin
    \/ ResultSend
    \/ NotificationBegin
    \/ GistBegin
    \/ GistMkdtemp
    \/ GistWriteFile
    \/ GistExec
    \/ GistCommunicate
    \/ GistFinally
    \/ NotificationPublished
    \/ NotificationSend
    \/ \E session_key \in SessionKeys : SaveCall(session_key)

RaceInit ==
    /\ Init
    /\ ParserIdle
    /\ GistIdle
    /\ PublishIdle
    /\ FormatterIdle
    /\ SaveIdle
    /\ incremental = NoIncremental
    /\ working_diff \in ResultDiffs
    /\ diff_snapshots \in [SessionKeys -> ResultSnapshots]
    /\ \E context \in Contexts :
           result = ResultCalled(context, Hello, "slack", TRUE)

RaceSpec == RaceInit /\ [][RaceNext]_others

\* C35: when the notification has been sent and the snapshot of the session
\* key is cleared, a snapshot stored for that key that is not the one
\* get_incremental_diff compared with, so one saved since, stays stored.
C35_ClearKeepsLaterSnapshot ==
    [][LET session_key == SessionKey(result.context) IN
       (/\ result.pc = "buttons_send"
        /\ result'.pc = "returned"
        /\ diff_snapshots[session_key].stored
        /\ diff_snapshots[session_key] # incremental.previous)
           => diff_snapshots'[session_key] = diff_snapshots[session_key]]_others

----------------------------------------------------------------------------
(* What a call for one key leaves alone                                    *)

\* C36: a step that changes the stored buffer or the tracked id of a key is
\* a step of a call, an emit or a clear, for that very key: the entries of
\* every other key are as before.
C36_OtherKeysUntouched ==
    [][\A k \in Keys :
          (\/ consolidated_message_buffers'[k] # consolidated_message_buffers[k]
           \/ consolidated_message_ids'[k] # consolidated_message_ids[k])
              => \A t \in DOMAIN tasks :
                     tasks'[t] # tasks[t] => tasks'[t].key = k]_vars

\* C36 witness: a clear for one key has returned, and so has a log fragment
\* for the other key, whose buffer and tracked id are still there.
C36_Witness ==
    \E t, u \in DOMAIN tasks :
        /\ tasks[t].op = "clear"
        /\ tasks[t].pc = "done"
        /\ tasks[u].op = "emit"
        /\ tasks[u].pc = "done"
        /\ t > u
        /\ tasks[u].key # tasks[t].key
        /\ consolidated_message_buffers[tasks[u].key] # <<>>
        /\ consolidated_message_ids[tasks[u].key] # NoId

----------------------------------------------------------------------------
(* The loop that splits an oversized buffer                                *)

\* C37: while a call is suspended in the platform call of an oversized part
\* no id is tracked for its key and the call holds none, so the part is
\* sent and not edited; every completed call of the loop is a send, and the
\* id of a message sent by the loop is never tracked for any key.
C37_SplitPartsAreNewMessages ==
    /\ \A t \in DOMAIN tasks :
           tasks[t].pc = "split_call" =>
               /\ tasks[t].existing_message_id = NoId
               /\ consolidated_message_ids[tasks[t].key] = NoId
    /\ \A i \in 1 .. Len(calls) :
           calls[i].site = "split" =>
               /\ calls[i].op = "send"
               /\ calls[i].ok =>
                      \A k \in Keys : consolidated_message_ids[k] # calls[i].id

\* C37 witness: a call found a tracked message, closed it because the
\* joined text passed the threshold, then sent an oversized part as a new
\* message, and is now suspended in the send of the remainder.
C37_Witness ==
    \E i, j \in 1 .. Len(calls) :
        /\ i < j
        /\ calls[i].site = "finalize"
        /\ calls[j].site = "split"
        /\ calls[j].task = calls[i].task
        /\ calls[j].ok
        /\ tasks[calls[j].task].pc = "final_send"

----------------------------------------------------------------------------
(* get_incremental_diff on diffs of every shape                            *)

\* The greatest number of segments of a working-tree diff.
MaxSegments == 2

\* What a diff is made of: segments of A in two versions and of B, a rename
\* of A into B, a segment whose header is malformed, and a line under no
\* header of its own.
TripBlocks ==
    { Segment("A", "v1"), Segment("A", "v2"), Segment("B", "v1"),
      << HeaderLine("A", "B"), <<"+", "v3">> >>,
      << MalformedHeaderLine, <<"+", "v1">> >>,
      << <<"-", "v0">> >> }

\* The lines of the blocks, one block after the other.
LinesOf(blocks) ==
    LET F[i \in 0 .. Len(blocks)] ==
            IF i = 0 THEN <<>> ELSE F[i - 1] \o blocks[i]
    IN  F[Len(blocks)]

\* The diffs of at most n blocks, with and without the last empty line that
\* the newline at the end of git's output leaves.
TripDiffs(n) ==
    {EmptyText} \cup
    {LinesOf(blocks) \o last :
        blocks \in UNION {[1 .. m -> TripBlocks] : m \in 1 .. n},
        last \in {<<>>, EmptyText}}

\* Any such diff in the working tree, and for the session that is followed
\* no snapshot or the snapshot of a diff of one block.
TripInit ==
    /\ Init
    /\ ParserIdle
    /\ GistIdle
    /\ ResultIdle
    /\ PublishIdle
    /\ FormatterIdle
    /\ SaveIdle
    /\ incremental = NoIncremental
    /\ working_diff \in TripDiffs(MaxSegments)
    /\ \E previous \in {NoSnapshot} \cup {Captured(d) : d \in TripDiffs(1)} :
           diff_snapshots = [k \in SessionKeys |->
                                IF k \in DiffSessions THEN previous
                                ELSE NoSnapshot]

TripNext == \E session_key \in DiffSessions : GetIncrementalDiff(session_key)

TripSpec == TripInit /\ [][TripNext]_others

\* C38: _parse_diff_to_files applied to the incremental diff text gives the
\* changed files back: the same paths, in the same order, each with the
\* segment that is the file's diff_content.
C38_IncrementalDiffRoundTrips ==
    incremental.called =>
        LET files == ParseDiffToFiles(incremental.incremental_diff_content) IN
        /\ Len(files) = Len(incremental.file_diffs)
        /\ \A i \in 1 .. Len(files) :
               /\ files[i].path = incremental.file_diffs[i].path
               /\ files[i].content = incremental.file_diffs[i].diff_content

\* C38 witness: of the two files of the working tree's diff, A and B, the
\* snapshot had A as it is; B alone is reported, and its segment ends with
\* the empty line at the end of git's output.
C38_Witness ==
    /\ incremental.called
    /\ incremental.previous.stored
    /\ Len(ParseDiffToFiles(incremental.current_diff)) = 2
    /\ Len(incremental.file_diffs) = 1
    /\ incremental.file_diffs[1].path = "B"
    /\ incremental.incremental_diff_content = Segment("B", "v1") \o EmptyText

----------------------------------------------------------------------------
(* create_diff_gist for paths in directories                               *)

\* The diffs of one and two files among a/b, a\b, a_b and A, each ended by
\* a newline.
DirectoryInputs ==
    LET paths == {"a/b", "a\\b", "a_b", "A"} IN
    {Segment(p, "v1") \o EmptyText : p \in paths}
        \cup {Segment(pq[1], "v1") \o Segment(pq[2], "v2") \o EmptyText :
                 pq \in {x \in paths \X paths : x[1] # x[2]}}

DirectoryInit ==
    /\ Init
    /\ GistServiceInit
    /\ ParserIdle
    /\ ResultIdle
    /\ PublishIdle
    /\ FormatterIdle
    /\ SaveIdle
    /\ fs = {}
    /\ \E diff_output \in DirectoryInputs, per_file \in BOOLEAN :
           gist = GistCalled(diff_output, per_file)

DirectorySpec == DirectoryInit /\ [][GistNext]_others

\* C39: the temporary files written for two different paths of the diff are
\* two different files.
C39_DistinctPathsDistinctFiles ==
    gist.per_file =>
        \A i, j \in 1 .. Len(gist.temp_files) :
            gist.files_dict[i].path # gist.files_dict[j].path
                => gist.temp_files[i] # gist.temp_files[j]

----------------------------------------------------------------------------
(* Properties of the note about the changes of a file that are not shown   *)

\* The headings of files among the blocks, in order.
HeadingPositions ==
    LET F[i \in 0 .. Len(formatter.blocks)] ==
            IF i = 0 THEN <<>>
            ELSE IF i \in FileHeadings THEN Append(F[i - 1], i) ELSE F[i - 1]
    IN  F[Len(formatter.blocks)]

\* The blocks of the k-th file shown, after its heading.
BlocksOfFile(k) ==
    LET pos == HeadingPositions
        last == IF k < Len(pos) THEN pos[k + 1] - 1 ELSE Len(formatter.blocks)
    IN  SubSeq(formatter.blocks, pos[k] + 1, last)

\* The changed lines of the k-th file that its blocks show.
LinesShown(k) ==
    LET shown == SelectSeq(BlocksOfFile(k), LAMBDA b : b.type = "rich_text")
    IN  IF shown = <<>> THEN 0 ELSE Len(shown[1].elements)

\* C40: a note that changes of a file are not shown stands among the file's
\* blocks only when the blocks show fewer changed lines than the file has,
\* and the number on it is the number of the changed lines not shown.
C40_NoteCountsOmittedLines ==
    \A k \in 1 .. Len(HeadingPositions) :
        \A i \in 1 .. Len(BlocksOfFile(k)) :
            LET block == BlocksOfFile(k)[i]
                omitted == TotalChanges(formatter.files[k]) - LinesShown(k)
            IN  (block.type = "context" /\ block.text[1] = "changes not shown")
                    => omitted >= 1 /\ block.text[2] = omitted

====
